---- MODULE Spec2Model ----
(***************************************************************************)
(* A model of crea-review's review orchestration core:                     *)
(*   - package batch    (Grouper.Group and its helpers),                   *)
(*   - package session  (Store: Create, Save, Load, Delete, List,          *)
(*                       CollectReviewedFiles, atomicWrite).               *)
(* Paths are TLA+ strings; the Go string and filepath functions the code   *)
(* uses are defined below on strings by what they compute.                 *)
(***************************************************************************)
EXTENDS Integers, Sequences, FiniteSets, TLC

VARIABLES
    scores,     \* Group: the []priority.Score handed to Grouper.Group
    opts,       \* Group: the Grouper's Options
    grouped,    \* Group: what Group did ("none" before the call)
    meta,       \* Store: sessions/<id>/meta.json, per directory name
    latest,     \* Store: target of the sessions/latest symlink (0: absent)
    mem,        \* Store: the caller's in-memory *Session
    ret,        \* Store: the last operation and what it returned
    clock,      \* Store: time.Now(), counted in Create calls
    assigned,   \* Store: history, the ids that successful Creates assigned
    wr,         \* atomicWrite: position and files of a write in progress
    scored,     \* ScoreFiles: the scorer, its input and what it returned
    kept,       \* Store: a second *Session the caller still holds
    taken,      \* TakeFiles: its arguments and what it returned
    procs       \* Create: two invocations on one state directory, by step

groupVars == <<scores, opts, grouped>>
storeVars == <<meta, latest, mem, ret, clock, assigned>>
vars == <<scores, opts, grouped, meta, latest, mem, ret, clock, assigned, wr, scored, kept, taken, procs>>

-----------------------------------------------------------------------------
(* Bounds of the model.                                                    *)

MaxScores == 3      \* longest score list handed to Group
MaxPerBatch == 2    \* largest Options.MaxFilesPerBatch tried
MaxId == 3          \* largest session id the store reaches
MaxClock == 3       \* number of Create calls in one behaviour
MaxRuns == 2        \* number of runs, each with one Create, in SpecRun
MaxFiles == 3       \* longest file list handed to ScoreFiles
MaxBatches == 3     \* longest batch list handed to TakeFiles

-----------------------------------------------------------------------------
(* Go strings, path/filepath.                                              *)

Min(a, b) == IF a < b THEN a ELSE b

HasSuffix(s, suf) ==
    Len(s) >= Len(suf) /\ SubSeq(s, Len(s) - Len(suf) + 1, Len(s)) = suf

HasPrefix(s, pre) ==
    Len(s) >= Len(pre) /\ SubSeq(s, 1, Len(pre)) = pre

TrimSuffix(s, suf) ==
    IF HasSuffix(s, suf) THEN SubSeq(s, 1, Len(s) - Len(suf)) ELSE s

TrimPrefix(s, pre) ==
    IF HasPrefix(s, pre) THEN SubSeq(s, Len(pre) + 1, Len(s)) ELSE s

\* strings.Index: the 1-based position of the first occurrence, 0 if none.
Index(s, sub) ==
    LET hits == {i \in 1..(Len(s) - Len(sub) + 1) :
                    SubSeq(s, i, i + Len(sub) - 1) = sub}
    IN  IF hits = {} THEN 0 ELSE CHOOSE i \in hits : \A j \in hits : i <= j

Contains(s, sub) == Index(s, sub) # 0

\* strings.Replace(s, old, new, 1)
ReplaceFirst(s, old, new) ==
    LET i == Index(s, old)
    IN  IF i = 0 THEN s
        ELSE SubSeq(s, 1, i - 1) \o new \o SubSeq(s, i + Len(old), Len(s))

\* Position of the last occurrence of the one-character string c, 0 if none.
LastIndexByte(s, c) ==
    LET hits == {i \in 1..Len(s) : SubSeq(s, i, i) = c}
    IN  IF hits = {} THEN 0 ELSE CHOOSE i \in hits : \A j \in hits : i >= j

\* filepath.Clean on the relative paths the model uses: no "..", no "//",
\* no interior "/./"; a leading "./" and a trailing "/" are removed and the
\* empty path becomes ".".
RECURSIVE Clean(_)
Clean(p) ==
    IF p = "" THEN "."
    ELSE IF p = "." THEN "."
    ELSE IF HasPrefix(p, "./") THEN Clean(TrimPrefix(p, "./"))
    ELSE IF Len(p) > 1 /\ HasSuffix(p, "/") THEN Clean(TrimSuffix(p, "/"))
    ELSE p

\* filepath.Base
Base(p) ==
    IF p = "" THEN "."
    ELSE LET q == IF Len(p) > 1 /\ HasSuffix(p, "/") THEN TrimSuffix(p, "/") ELSE p
             i == LastIndexByte(q, "/")
         IN  IF q = "/" THEN "/" ELSE SubSeq(q, i + 1, Len(q))

\* filepath.Dir
Dir(p) ==
    LET i == LastIndexByte(p, "/")
    IN  IF i = 0 THEN "."
        ELSE IF i = 1 THEN "/"
        ELSE Clean(SubSeq(p, 1, i - 1))

\* filepath.Ext: the suffix beginning at the final dot of the final element.
Ext(p) ==
    LET b == SubSeq(p, LastIndexByte(p, "/") + 1, Len(p))
        i == LastIndexByte(b, ".")
    IN  IF i = 0 THEN "" ELSE SubSeq(b, i, Len(b))

\* filepath.Join of two elements: empty elements are ignored, the result is
\* cleaned.
Join(d, f) ==
    IF d = "" /\ f = "" THEN ""
    ELSE IF d = "" THEN Clean(f)
    ELSE IF f = "" THEN Clean(d)
    ELSE Clean(d \o "/" \o f)

-----------------------------------------------------------------------------
(* package batch                                                           *)

\* Go evaluates an expression once, when it is assigned or passed to a
\* call: With(v, F) is F applied to the value of v.
With(v, F(_)) == CHOOSE r \in {F(x) : x \in {v}} : TRUE

\* batch.isTestFile
isTestFile(path) ==
    LET base == Base(path)
    IN  \/ HasSuffix(base, "_test.go")
        \/ HasSuffix(base, ".test.js")
        \/ HasSuffix(base, ".test.ts")
        \/ HasSuffix(base, ".test.jsx")
        \/ HasSuffix(base, ".test.tsx")
        \/ HasSuffix(base, ".spec.js")
        \/ HasSuffix(base, ".spec.ts")
        \/ HasPrefix(base, "test_")
        \/ HasSuffix(base, "_test.py")
        \/ HasSuffix(base, "Test.java")
        \/ HasSuffix(base, "Test.kt")

\* batch.getSourcePath
getSourcePath(testPath) ==
    LET dir  == Dir(testPath)
        base == Base(testPath)
        ext  == Ext(base)
    IN  IF HasSuffix(base, "_test.go")
            THEN Join(dir, TrimSuffix(base, "_test.go") \o ".go")
        ELSE IF Contains(base, ".test.")
            THEN Join(dir, ReplaceFirst(base, ".test.", "."))
        ELSE IF Contains(base, ".spec.")
            THEN Join(dir, ReplaceFirst(base, ".spec.", "."))
        ELSE IF HasPrefix(base, "test_")
            THEN Join(dir, TrimPrefix(base, "test_"))
        ELSE IF HasSuffix(base, "_test.py")
            THEN Join(dir, TrimSuffix(base, "_test.py") \o ".py")
        ELSE IF HasSuffix(base, "Test.java")
            THEN Join(dir, TrimSuffix(base, "Test.java") \o ".java")
        ELSE IF HasSuffix(base, "Test.kt")
            THEN Join(dir, TrimSuffix(base, "Test.kt") \o ".kt")
        ELSE Join(dir, TrimSuffix(base, ext) \o ext)

\* priority.Score as the Grouper reads it: Path and Total.
Score(path, total) == [Path |-> path, Total |-> total]

\* Options (MaxFilesPerBatch, MaxTotalFiles, GroupByPackage, PairTests)
Options(perBatch, total, byPackage, pairTests) ==
    [MaxFilesPerBatch |-> perBatch, MaxTotalFiles |-> total,
     GroupByPackage |-> byPackage, PairTests |-> pairTests]

\* A Go map[string][]Score is a function on its keys; m[k] = append(m[k], v).
EmptyMap == [k \in {} |-> <<>>]

MapAppend(m, k, v) ==
    IF k \in DOMAIN m THEN [m EXCEPT ![k] = Append(@, v)]
    ELSE m @@ (k :> <<v>>)

\* The orders in which a range statement may visit the keys of a map.
KeyOrders(m) ==
    LET n == Cardinality(DOMAIN m)
    IN  {o \in [1..n -> DOMAIN m] : \A i, j \in 1..n : o[i] = o[j] => i = j}

\* Group, first loop: every test file goes to pairs[getSourcePath(path)].
RECURSIVE pairTestFiles(_, _, _)
pairTestFiles(files, i, acc) ==
    IF i > Len(files) THEN acc
    ELSE LET score == files[i]
         IN  IF isTestFile(score.Path)
             THEN With([pairs |-> MapAppend(acc.pairs, getSourcePath(score.Path), score),
                        used  |-> acc.used \cup {score.Path}],
                       LAMBDA next : pairTestFiles(files, i + 1, next))
             ELSE pairTestFiles(files, i + 1, acc)

\* pairSourceFiles without used[score.Path] = true.
RECURSIVE pairSourceFiles_NotUsed(_, _, _)
pairSourceFiles_NotUsed(files, i, acc) ==
    IF i > Len(files) THEN acc
    ELSE LET score == files[i]
         IN  IF ~isTestFile(score.Path) /\ score.Path \in DOMAIN acc.pairs
             THEN With([pairs |-> [acc.pairs EXCEPT ![score.Path] = <<score>> \o @],
                        used  |-> acc.used],
                       LAMBDA next : pairSourceFiles_NotUsed(files, i + 1, next))
             ELSE pairSourceFiles_NotUsed(files, i + 1, acc)

\* pairSourceFiles that puts the source file behind its tests.
RECURSIVE pairSourceFiles_Append(_, _, _)
pairSourceFiles_Append(files, i, acc) ==
    IF i > Len(files) THEN acc
    ELSE LET score == files[i]
         IN  IF ~isTestFile(score.Path) /\ score.Path \in DOMAIN acc.pairs
             THEN With([pairs |-> [acc.pairs EXCEPT ![score.Path] = @ \o <<score>>],
                        used  |-> acc.used \cup {score.Path}],
                       LAMBDA next : pairSourceFiles_Append(files, i + 1, next))
             ELSE pairSourceFiles_Append(files, i + 1, acc)

\* Group, second loop: a source file whose path is a key of pairs is put in
\* front of that pair.
RECURSIVE pairSourceFiles(_, _, _)
pairSourceFiles(files, i, acc) ==
    IF i > Len(files) THEN acc
    ELSE LET score == files[i]
         IN  IF ~isTestFile(score.Path) /\ score.Path \in DOMAIN acc.pairs
             THEN With([pairs |-> [acc.pairs EXCEPT ![score.Path] = <<score>> \o @],
                        used  |-> acc.used \cup {score.Path}],
                       LAMBDA next : pairSourceFiles(files, i + 1, next))
             ELSE pairSourceFiles(files, i + 1, acc)

\* Group, third loop: every file not yet used goes to packages[Dir(path)].
RECURSIVE groupPackages(_, _, _)
groupPackages(files, i, acc) ==
    IF i > Len(files) THEN acc
    ELSE LET score == files[i]
         IN  IF score.Path \in acc.used
             THEN groupPackages(files, i + 1, acc)
             ELSE With([packages |-> MapAppend(acc.packages, Dir(score.Path), score),
                        used     |-> acc.used \cup {score.Path}],
                       LAMBDA next : groupPackages(files, i + 1, next))

\* Group, fourth loop: the files still unused, in order.
RECURSIVE collectUngrouped(_, _, _)
collectUngrouped(files, i, used) ==
    IF i > Len(files) THEN <<>>
    ELSE IF files[i].Path \in used
         THEN collectUngrouped(files, i + 1, used)
         ELSE <<files[i]>> \o collectUngrouped(files, i + 1, used)

RECURSIVE SumTotals(_)
SumTotals(fs) == IF fs = <<>> THEN 0 ELSE Head(fs).Total + SumTotals(Tail(fs))

Paths(fs) == [i \in 1..Len(fs) |-> fs[i].Path]

\* One Batch built from a run of scores.
Batch(id, fs, reason) ==
    [ID |-> id, Files |-> Paths(fs), Reason |-> reason, TotalScore |-> SumTotals(fs)]

\* The splitting loop  for i := 0; i < len(fs); i += max { end := i + max ... }
\* acc carries the batches emitted so far, the next batch id and the outcome.
\* With max = 0 the index never advances; with max < 0 the slice expression
\* fs[i:end] has end < i and panics.
RECURSIVE splitLoop(_, _, _, _, _)
splitLoop(fs, i, max, reason, acc) ==
    IF acc.outcome # "ok" \/ i >= Len(fs) THEN acc
    ELSE IF max = 0 THEN [acc EXCEPT !.outcome = "hang"]
    ELSE IF max < 0 THEN [acc EXCEPT !.outcome = "panic"]
    ELSE LET end == Min(i + max, Len(fs))
         IN  With([acc EXCEPT !.batches = Append(@, Batch(acc.batchID, SubSeq(fs, i + 1, end), reason)),
                               !.batchID = @ + 1],
                  LAMBDA next : splitLoop(fs, i + max, max, reason, next))

\* emitPairs that never splits a pair.
RECURSIVE emitPairs_NoSplit(_, _, _, _, _)
emitPairs_NoSplit(pairs, order, k, max, acc) ==
    IF acc.outcome # "ok" \/ k > Len(order) THEN acc
    ELSE With([acc EXCEPT !.batches = Append(@, Batch(acc.batchID, pairs[order[k]], "test-pair")),
                          !.batchID = @ + 1],
              LAMBDA next : emitPairs_NoSplit(pairs, order, k + 1, max, next))

\* The loop over the test pairs, visited in the order given.
RECURSIVE emitPairs(_, _, _, _, _)
emitPairs(pairs, order, k, max, acc) ==
    IF acc.outcome # "ok" \/ k > Len(order) THEN acc
    ELSE LET sourcePath == order[k]
             pairFiles  == pairs[sourcePath]
         IN  IF Len(pairFiles) = 0 THEN emitPairs(pairs, order, k + 1, max, acc)
             ELSE IF Len(pairFiles) <= max
             THEN With([acc EXCEPT !.batches = Append(@, Batch(acc.batchID, pairFiles, "test-pair")),
                                   !.batchID = @ + 1],
                       LAMBDA next : emitPairs(pairs, order, k + 1, max, next))
             ELSE With(splitLoop(pairFiles, 0, max,
                                 "test-pair (split " \o Base(sourcePath) \o ")", acc),
                       LAMBDA next : emitPairs(pairs, order, k + 1, max, next))

\* The loop over the package groups, visited in the order given.
RECURSIVE emitPackages(_, _, _, _, _)
emitPackages(packages, order, k, max, acc) ==
    IF acc.outcome # "ok" \/ k > Len(order) THEN acc
    ELSE With(splitLoop(packages[order[k]], 0, max,
                        "same-package (" \o order[k] \o ")", acc),
              LAMBDA next : emitPackages(packages, order, k + 1, max, next))

\* batch.sortBatches: the inner loop for one i.
RECURSIVE sortBatchesInner(_, _, _)
sortBatchesInner(b, i, j) ==
    IF j > Len(b) THEN b
    ELSE IF b[j].TotalScore > b[i].TotalScore
         THEN With([b EXCEPT ![i] = b[j], ![j] = b[i]],
                   LAMBDA swapped : sortBatchesInner(swapped, i, j + 1))
         ELSE sortBatchesInner(b, i, j + 1)

RECURSIVE sortBatchesOuter(_, _)
sortBatchesOuter(b, i) ==
    IF i > Len(b) THEN b
    ELSE With(sortBatchesInner(b, i, i + 1),
              LAMBDA sorted : sortBatchesOuter(sorted, i + 1))

\* batch.sortBatches
sortBatches(b) == sortBatchesOuter(b, 1)

\* The maps Group builds before it emits batches.
GroupMaps(ss, o) ==
    LET files == IF o.MaxTotalFiles > 0 /\ Len(ss) > o.MaxTotalFiles
                 THEN SubSeq(ss, 1, o.MaxTotalFiles) ELSE ss
        p0 == [pairs |-> EmptyMap, used |-> {}]
        p2 == IF o.PairTests
              THEN With(pairTestFiles(files, 1, p0),
                        LAMBDA p1 : pairSourceFiles(files, 1, p1))
              ELSE p0
    IN  With(p2, LAMBDA p :
          LET g0 == [packages |-> EmptyMap, used |-> p.used]
          IN  With(IF o.GroupByPackage THEN groupPackages(files, 1, g0) ELSE g0,
                   LAMBDA g : [pairs |-> p.pairs, packages |-> g.packages,
                               ungrouped |-> collectUngrouped(files, 1, g.used)]))

\* Grouper.Group. pairOrder and pkgOrder are the orders in which the two
\* range statements visit their maps. The result is the batch list and how
\* the call ended: "ok" (returned), "hang" or "panic".
Group(ss, o, pairOrder, pkgOrder) ==
    IF Len(ss) = 0 THEN [outcome |-> "ok", batches |-> <<>>]
    ELSE LET max == o.MaxFilesPerBatch
             a0 == [batches |-> <<>>, batchID |-> 1, outcome |-> "ok"]
         IN  With(GroupMaps(ss, o), LAMBDA m :
             With(emitPairs(m.pairs, pairOrder, 1, max, a0), LAMBDA a1 :
             With(emitPackages(m.packages, pkgOrder, 1, max, a1), LAMBDA a2 :
             With(splitLoop(m.ungrouped, 0, max, "ungrouped", a2), LAMBDA a3 :
                IF a3.outcome = "ok"
                THEN [outcome |-> "ok", batches |-> sortBatches(a3.batches)]
                ELSE [outcome |-> a3.outcome, batches |-> <<>>]))))

\* batch.FilesInBatches
RECURSIVE FilesInBatches(_)
FilesInBatches(b) ==
    IF b = <<>> THEN 0 ELSE Len(Head(b).Files) + FilesInBatches(Tail(b))

\* The loop of TakeFiles with continue in the place of break.
RECURSIVE takeLoop_Continue(_, _, _, _, _)
takeLoop_Continue(batches, i, maxFiles, result, fileCount) ==
    IF i > Len(batches) THEN result
    ELSE IF fileCount + Len(batches[i].Files) > maxFiles
         THEN takeLoop_Continue(batches, i + 1, maxFiles, result, fileCount)
         ELSE takeLoop_Continue(batches, i + 1, maxFiles, Append(result, batches[i]),
                                fileCount + Len(batches[i].Files))

\* batch.TakeFiles: the loop over the batches.
RECURSIVE takeLoop(_, _, _, _, _)
takeLoop(batches, i, maxFiles, result, fileCount) ==
    IF i > Len(batches) THEN result
    ELSE IF fileCount + Len(batches[i].Files) > maxFiles
         THEN result
         ELSE takeLoop(batches, i + 1, maxFiles, Append(result, batches[i]),
                       fileCount + Len(batches[i].Files))

\* batch.TakeFiles
TakeFiles(batches, maxFiles) == takeLoop(batches, 1, maxFiles, <<>>, 0)

-----------------------------------------------------------------------------
(* package priority. The float64 scores are modelled exactly: a weight is  *)
(* a whole number of hundredths (0.30 is 30) and a score a whole number of *)
(* twelfths of a point (100 points are 1200), so that the quotients by the *)
(* maxLines of the files used here (1, 2, 3, 4, 6) and by 50 are whole.    *)
(* The rounding of float64 arithmetic is not modelled.                     *)

ScoreUnit == 12

\* Weights, in hundredths.
Weights(lines, criticality, churn, testCoverage, recency) ==
    [LinesChanged |-> lines, Criticality |-> criticality, Churn |-> churn,
     TestCoverage |-> testCoverage, Recency |-> recency]

DefaultWeights == Weights(30, 25, 20, 15, 10)

\* rcontext.FileContent as the Scorer reads it.
FileContent(path, added, deleted) ==
    [Path |-> path, LinesAdded |-> added, LinesDeleted |-> deleted]

\* strings.ToLower on ASCII, as the (?i) flag of the patterns folds case.
RECURSIVE ToLower(_)
ToLower(s) ==
    IF s = "" THEN ""
    ELSE With(Index("ABCDEFGHIJKLMNOPQRSTUVWXYZ", SubSeq(s, 1, 1)),
              LAMBDA k : (IF k = 0 THEN SubSeq(s, 1, 1)
                          ELSE SubSeq("abcdefghijklmnopqrstuvwxyz", k, k))
                         \o ToLower(SubSeq(s, 2, Len(s))))

criticalPatterns ==
    <<"/auth/", "/security/", "/crypto/", "/api/", "/handler/", "/controller/",
      "/middleware/", "/payment/", "/billing/", "/admin/",
      "password", "secret", "token", "credential">>

\* isCriticalPath with patterns that match the path as it is written.
isCriticalPath_CaseSensitive(path) ==
    \E k \in 1..Len(criticalPatterns) : Contains(path, criticalPatterns[k])

\* priority.isCriticalPath: some pattern matches somewhere in the path.
isCriticalPath(path) ==
    With(ToLower(path),
         LAMBDA lower : \E k \in 1..Len(criticalPatterns) :
                            Contains(lower, criticalPatterns[k]))

\* priority.isTestFile: the name patterns of batch.isTestFile and the test
\* directories.
isTestFilePriority(path) ==
    LET base == Base(path)
        dir  == Dir(path)
    IN  \/ HasSuffix(base, "_test.go")
        \/ HasSuffix(base, ".test.js")
        \/ HasSuffix(base, ".test.ts")
        \/ HasSuffix(base, ".test.jsx")
        \/ HasSuffix(base, ".test.tsx")
        \/ HasSuffix(base, ".spec.js")
        \/ HasSuffix(base, ".spec.ts")
        \/ HasPrefix(base, "test_")
        \/ HasSuffix(base, "_test.py")
        \/ HasSuffix(base, "Test.java")
        \/ HasSuffix(base, "Test.kt")
        \/ Contains(dir, "/test/")
        \/ Contains(dir, "/tests/")
        \/ Contains(dir, "/__tests__/")
        \/ HasSuffix(dir, "/test")
        \/ HasSuffix(dir, "/tests")

\* priority.hasAssociatedTests; testFiles is the set of keys of the map.
hasAssociatedTests(path, testFiles) ==
    \/ isTestFilePriority(path)
    \/ LET ext  == Ext(path)
           base == TrimSuffix(Base(path), ext)
           dir  == Dir(path)
       IN  {Join(dir, base \o "_test.go"),
            Join(dir, base \o ".test" \o ext),
            Join(dir, base \o ".spec" \o ext),
            Join(Join(dir, "__tests__"), base \o ext),
            Join(dir, "test_" \o base \o ext),
            Join(dir, base \o "_test" \o ext)} \cap testFiles # {}

\* git.FileChurn(ctx, repoPath, path): what the repository answers for the
\* path, an error or a number of commits.
ChurnResult(err, count) == [err |-> err, count |-> count]

\* scoreFile that takes the count whatever FileChurn's error is.
scoreFile_ChurnUnchecked(f, maxLines, testFiles, weights, churn) ==
    LET linesChanged  == f.LinesAdded + f.LinesDeleted
        linesScore    == (linesChanged * weights.LinesChanged * ScoreUnit) \div maxLines
        isCritical    == isCriticalPath(f.Path)
        criticalScore == IF isCritical THEN weights.Criticality * ScoreUnit ELSE 0
        got           == churn[f.Path]
        counted       == got.count > 0
        churnCount    == IF counted THEN got.count ELSE 0
        churnScore    == IF counted
                         THEN (Min(got.count, 50) * weights.Churn * ScoreUnit) \div 50
                         ELSE 0
        hasTests      == hasAssociatedTests(f.Path, testFiles)
        testScore     == IF ~hasTests /\ ~isTestFilePriority(f.Path)
                         THEN weights.TestCoverage * ScoreUnit ELSE 0
        recencyScore  == (weights.Recency * ScoreUnit) \div 2
    IN  [Path |-> f.Path,
         Total |-> linesScore + criticalScore + churnScore + testScore + recencyScore,
         LinesChanged |-> linesChanged, IsCriticalPath |-> isCritical,
         ChurnCount |-> churnCount, HasTests |-> hasTests,
         Breakdown |-> [LinesChangedScore |-> linesScore,
                        CriticalityScore |-> criticalScore,
                        ChurnScore |-> churnScore,
                        TestCoverageScore |-> testScore,
                        RecencyScore |-> recencyScore]]

\* Scorer.scoreFile
scoreFile(f, maxLines, testFiles, weights, churn) ==
    LET linesChanged  == f.LinesAdded + f.LinesDeleted
        linesScore    == (linesChanged * weights.LinesChanged * ScoreUnit) \div maxLines
        isCritical    == isCriticalPath(f.Path)
        criticalScore == IF isCritical THEN weights.Criticality * ScoreUnit ELSE 0
        got           == churn[f.Path]
        counted       == ~got.err /\ got.count > 0
        churnCount    == IF counted THEN got.count ELSE 0
        churnScore    == IF counted
                         THEN (Min(got.count, 50) * weights.Churn * ScoreUnit) \div 50
                         ELSE 0
        hasTests      == hasAssociatedTests(f.Path, testFiles)
        testScore     == IF ~hasTests /\ ~isTestFilePriority(f.Path)
                         THEN weights.TestCoverage * ScoreUnit ELSE 0
        recencyScore  == (weights.Recency * ScoreUnit) \div 2
    IN  [Path |-> f.Path,
         Total |-> linesScore + criticalScore + churnScore + testScore + recencyScore,
         LinesChanged |-> linesChanged, IsCriticalPath |-> isCritical,
         ChurnCount |-> churnCount, HasTests |-> hasTests,
         Breakdown |-> [LinesChangedScore |-> linesScore,
                        CriticalityScore |-> criticalScore,
                        ChurnScore |-> churnScore,
                        TestCoverageScore |-> testScore,
                        RecencyScore |-> recencyScore]]

\* sortByScoreInner that drops the element it replaces.
RECURSIVE sortByScoreInner_Overwrite(_, _, _)
sortByScoreInner_Overwrite(sc, i, j) ==
    IF j > Len(sc) THEN sc
    ELSE IF sc[j].Total > sc[i].Total
         THEN With([sc EXCEPT ![i] = sc[j]],
                   LAMBDA swapped : sortByScoreInner_Overwrite(swapped, i, j + 1))
         ELSE sortByScoreInner_Overwrite(sc, i, j + 1)

\* priority.sortByScore: the inner loop for one i.
RECURSIVE sortByScoreInner(_, _, _)
sortByScoreInner(sc, i, j) ==
    IF j > Len(sc) THEN sc
    ELSE IF sc[j].Total > sc[i].Total
         THEN With([sc EXCEPT ![i] = sc[j], ![j] = sc[i]],
                   LAMBDA swapped : sortByScoreInner(swapped, i, j + 1))
         ELSE sortByScoreInner(sc, i, j + 1)

RECURSIVE sortByScoreOuter(_, _)
sortByScoreOuter(sc, i) ==
    IF i > Len(sc) THEN sc
    ELSE With(sortByScoreInner(sc, i, i + 1),
              LAMBDA sorted : sortByScoreOuter(sorted, i + 1))

\* priority.sortByScore
sortByScore(sc) == sortByScoreOuter(sc, 1)

\* The loop that leaves maxLines at its initial value.
maxLinesLoop_Unchanged(files, i, maxLines) == maxLines

\* Scorer.ScoreFiles, the loop that finds maxLines.
RECURSIVE maxLinesLoop(_, _, _)
maxLinesLoop(files, i, maxLines) ==
    IF i > Len(files) THEN maxLines
    ELSE LET total == files[i].LinesAdded + files[i].LinesDeleted
         IN  With(IF total > maxLines THEN total ELSE maxLines,
                  LAMBDA m : maxLinesLoop(files, i + 1, m))

\* Scorer.ScoreFiles(ctx, files) of a Scorer with the given weights on a
\* repository that answers FileChurn with churn. The error is always nil.
ScoreFiles(files, weights, churn) ==
    LET maxLines  == maxLinesLoop(files, 1, 1)
        testFiles == {files[i].Path : i \in {k \in 1..Len(files) :
                                               isTestFilePriority(files[k].Path)}}
    IN  With([i \in 1..Len(files) |->
                 scoreFile(files[i], maxLines, testFiles, weights, churn)],
             LAMBDA all : [scores |-> sortByScore(all), err |-> FALSE])

NotScored == [called |-> FALSE]

-----------------------------------------------------------------------------
(* package session: the Session record and its JSON document               *)

StatusPending == "pending"
StatusInProgress == "in_progress"
StatusCompleted == "completed"

\* A Go slice: nil, or a (possibly empty) sequence of elements.
NilSlice == [isNil |-> TRUE, elems |-> <<>>]
SliceOf(seq) == [isNil |-> FALSE, elems |-> seq]

\* A time.Time: the wall clock reading, and whether it carries the monotonic
\* reading that time.Now() adds and that does not survive encoding.
ZeroTime == [wall |-> 0, mono |-> FALSE]
Now(c) == [wall |-> c, mono |-> TRUE]

\* A *Session: nil or a pointer to a record.
NilSession == [isNil |-> TRUE]
Ptr(sess) == [isNil |-> FALSE, val |-> sess]

\* A Session struct literal as the callers write it: ID and CreatedAt zero.
Session(status, continuedFrom, files, findings) ==
    [ID |-> 0, CreatedAt |-> ZeroTime,
     BaseCommit |-> "abc123", HeadCommit |-> "def456",
     TotalFilesInDiff |-> Len(files.elems), FilesReviewed |-> Len(files.elems),
     FilesRemaining |-> 0,
     Status |-> status, ContinuedFrom |-> continuedFrom,
     Files |-> files, Findings |-> findings]

\* Marshal that leaves the findings out of the document.
Marshal_NoFindings(sess) ==
    [id |-> sess.ID, created_at |-> sess.CreatedAt.wall,
     base_commit |-> sess.BaseCommit, head_commit |-> sess.HeadCommit,
     total_files_in_diff |-> sess.TotalFilesInDiff,
     files_reviewed |-> sess.FilesReviewed,
     files_remaining |-> sess.FilesRemaining,
     status |-> sess.Status, files |-> sess.Files]
    @@ (IF sess.ContinuedFrom # 0
        THEN [continued_from |-> sess.ContinuedFrom] ELSE <<>>)

\* json.MarshalIndent(session): the document, as a function of its keys.
\* continued_from and findings are omitempty; a nil Files is written as null.
Marshal(sess) ==
    [id |-> sess.ID, created_at |-> sess.CreatedAt.wall,
     base_commit |-> sess.BaseCommit, head_commit |-> sess.HeadCommit,
     total_files_in_diff |-> sess.TotalFilesInDiff,
     files_reviewed |-> sess.FilesReviewed,
     files_remaining |-> sess.FilesRemaining,
     status |-> sess.Status, files |-> sess.Files]
    @@ (IF sess.ContinuedFrom # 0
        THEN [continued_from |-> sess.ContinuedFrom] ELSE <<>>)
    @@ (IF Len(sess.Findings.elems) > 0
        THEN [findings |-> sess.Findings.elems] ELSE <<>>)

\* json.Unmarshal(data, &session) into a zero Session.
Unmarshal(doc) ==
    [ID |-> doc.id, CreatedAt |-> [wall |-> doc.created_at, mono |-> FALSE],
     BaseCommit |-> doc.base_commit, HeadCommit |-> doc.head_commit,
     TotalFilesInDiff |-> doc.total_files_in_diff,
     FilesReviewed |-> doc.files_reviewed,
     FilesRemaining |-> doc.files_remaining,
     Status |-> doc.status,
     ContinuedFrom |-> IF "continued_from" \in DOMAIN doc THEN doc.continued_from ELSE 0,
     Files |-> doc.files,
     Findings |-> IF "findings" \in DOMAIN doc THEN SliceOf(doc.findings) ELSE NilSlice]

\* The state directory: m[d] is the content of sessions/<d>/meta.json.
NoFile == [absent |-> TRUE]
Ids == 1..MaxId
EmptyStore == [d \in Ids |-> NoFile]
Persisted(m) == {d \in DOMAIN m : m[d] # NoFile}

-----------------------------------------------------------------------------
(* package session: Store                                                  *)

\* Store.Load(id)
Load(m, id) ==
    IF id \in DOMAIN m /\ m[id] # NoFile
    THEN [session |-> Ptr(Unmarshal(m[id])), err |-> FALSE]
    ELSE [session |-> NilSession, err |-> TRUE]

\* Store.List(): the sessions whose document can be read, ascending by ID.
RECURSIVE sortByID(_)
sortByID(S) ==
    IF S = {} THEN <<>>
    ELSE LET least == CHOOSE x \in S : \A y \in S : x.ID <= y.ID
         IN  <<least>> \o sortByID(S \ {least})

List(m) == sortByID({Unmarshal(m[d]) : d \in Persisted(m)})

\* Store.Create, the loop that finds maxID.
RECURSIVE maxIDLoop(_, _, _)
maxIDLoop(sessions, i, maxID) ==
    IF i > Len(sessions) THEN maxID
    ELSE maxIDLoop(sessions, i + 1,
                   IF sessions[i].ID > maxID THEN sessions[i].ID ELSE maxID)

\* createStamp with the next id taken from the number of sessions.
createStamp_Count(m, sess, now) ==
    [sess EXCEPT !.ID = Len(List(m)) + 1,
                 !.CreatedAt = now,
                 !.Status = IF @ = "" THEN StatusPending ELSE @]

\* createStamp with the id taken from a counter of the Creates, so that no
\* number is handed out twice.
createStamp_Counter(m, sess, now) ==
    [sess EXCEPT !.ID = now.wall,
                 !.CreatedAt = now,
                 !.Status = IF @ = "" THEN StatusPending ELSE @]

\* createStamp with the id of the highest session instead of the next one.
createStamp_Max(m, sess, now) ==
    [sess EXCEPT !.ID = IF List(m) = <<>> THEN 1 ELSE maxIDLoop(List(m), 1, 0),
                 !.CreatedAt = now,
                 !.Status = IF @ = "" THEN StatusPending ELSE @]

\* Store.Create up to the call of Save: the record with ID, CreatedAt and
\* Status set.
createStamp(m, sess, now) ==
    [sess EXCEPT !.ID = maxIDLoop(List(m), 1, 0) + 1,
                 !.CreatedAt = now,
                 !.Status = IF @ = "" THEN StatusPending ELSE @]

\* Store.LoadLatest: the loop that finds the session with the highest ID.
RECURSIVE latestLoop(_, _, _)
latestLoop(sessions, i, latestSess) ==
    IF i > Len(sessions) THEN latestSess
    ELSE latestLoop(sessions, i + 1,
                    IF sessions[i].ID > latestSess.ID THEN sessions[i] ELSE latestSess)

\* Store.LoadLatest(); listErr: os.ReadDir fails in List.
LoadLatest(m, listErr) ==
    IF listErr THEN [session |-> NilSession, err |-> TRUE]
    ELSE IF Len(List(m)) = 0 THEN [session |-> NilSession, err |-> TRUE]
    ELSE [session |-> Ptr(latestLoop(List(m), 2, List(m)[1])), err |-> FALSE]

\* How the file system answers the calls of one Save:
\*   "ok"          every call succeeds
\*   "mkdir"       os.MkdirAll fails
\*   "write"       atomicWrite fails
\*   "symlink"     os.Remove removes the pointer, os.Symlink fails
\*   "remove"      os.Remove fails and so does os.Symlink (the name exists)
SaveOutcomes == {"ok", "mkdir", "write", "symlink", "remove"}

\* saveMeta that writes the sessions directory anew.
saveMeta_Alone(m, sess, io) ==
    IF io \in {"mkdir", "write"} THEN m
    ELSE [d \in DOMAIN m |-> IF d = sess.ID THEN Marshal(sess) ELSE NoFile]

\* Store.Save: the document store after the call.
saveMeta(m, sess, io) ==
    IF io \in {"mkdir", "write"} THEN m
    ELSE [m EXCEPT ![sess.ID] = Marshal(sess)]

\* saveLatest with the pointer moved before the document is written.
saveLatest_Early(l, sess, io) ==
    IF io = "mkdir" THEN l
    ELSE IF io \in {"ok", "write"} THEN sess.ID
    ELSE IF io = "symlink" THEN 0
    ELSE l

\* Store.Save: the latest pointer after the call.
saveLatest(l, sess, io) ==
    IF io \in {"mkdir", "write"} THEN l
    ELSE IF io = "ok" THEN sess.ID
    ELSE IF io = "symlink" THEN 0
    ELSE l

\* Store.Save: the error returned.
saveErr(io) == io \in {"mkdir", "write"}

\* The []string CollectReviewedFiles returns is filled from a map in the
\* map's order: it is modelled by the set of its elements (nil on error).
NilFiles == [isNil |-> TRUE, set |-> {}]
FilesOf(seen) == [isNil |-> FALSE, set |-> seen]

\* collectLoop that takes the first session loaded as the root.
RECURSIVE collectLoop_RootFirst(_, _, _, _, _)
collectLoop_RootFirst(m, currentID, seen, rootSession, visited) ==
    IF ~(currentID > 0)
    THEN [files |-> FilesOf(seen), root |-> rootSession, err |-> FALSE, hang |-> FALSE]
    ELSE IF currentID \in visited
    THEN [files |-> NilFiles, root |-> NilSession, err |-> FALSE, hang |-> TRUE]
    ELSE LET l == Load(m, currentID)
         IN  IF l.err
             THEN [files |-> NilFiles, root |-> NilSession, err |-> TRUE, hang |-> FALSE]
             ELSE LET sess == l.session.val
                  IN  collectLoop_RootFirst(m, sess.ContinuedFrom,
                        seen \cup {sess.Files.elems[k] : k \in 1..Len(sess.Files.elems)},
                        IF rootSession = NilSession THEN l.session ELSE rootSession,
                        visited \cup {currentID})

\* collectLoop that returns what it has collected when a session is missing.
RECURSIVE collectLoop_Partial(_, _, _, _, _)
collectLoop_Partial(m, currentID, seen, rootSession, visited) ==
    IF ~(currentID > 0)
    THEN [files |-> FilesOf(seen), root |-> rootSession, err |-> FALSE, hang |-> FALSE]
    ELSE IF currentID \in visited
    THEN [files |-> NilFiles, root |-> NilSession, err |-> FALSE, hang |-> TRUE]
    ELSE LET l == Load(m, currentID)
         IN  IF l.err
             THEN [files |-> FilesOf(seen), root |-> rootSession, err |-> TRUE, hang |-> FALSE]
             ELSE LET sess == l.session.val
                  IN  collectLoop_Partial(m, sess.ContinuedFrom,
                        seen \cup {sess.Files.elems[k] : k \in 1..Len(sess.Files.elems)},
                        IF sess.ContinuedFrom = 0 THEN l.session ELSE rootSession,
                        visited \cup {currentID})

\* collectLoop that takes the files of completed sessions only.
RECURSIVE collectLoop_CompletedOnly(_, _, _, _, _)
collectLoop_CompletedOnly(m, currentID, seen, rootSession, visited) ==
    IF ~(currentID > 0)
    THEN [files |-> FilesOf(seen), root |-> rootSession, err |-> FALSE, hang |-> FALSE]
    ELSE IF currentID \in visited
    THEN [files |-> NilFiles, root |-> NilSession, err |-> FALSE, hang |-> TRUE]
    ELSE LET l == Load(m, currentID)
         IN  IF l.err
             THEN [files |-> NilFiles, root |-> NilSession, err |-> TRUE, hang |-> FALSE]
             ELSE LET sess == l.session.val
                  IN  collectLoop_CompletedOnly(m, sess.ContinuedFrom,
                        IF sess.Status = StatusCompleted
                        THEN seen \cup {sess.Files.elems[k] : k \in 1..Len(sess.Files.elems)}
                        ELSE seen,
                        IF sess.ContinuedFrom = 0 THEN l.session ELSE rootSession,
                        visited \cup {currentID})

\* Store.CollectReviewedFiles, the loop from currentID. The store does not
\* change while the loop runs, so a loop that comes back to a session it has
\* loaded never ends: the result is then "hang".
RECURSIVE collectLoop(_, _, _, _, _)
collectLoop(m, currentID, seen, rootSession, visited) ==
    IF ~(currentID > 0)
    THEN [files |-> FilesOf(seen), root |-> rootSession, err |-> FALSE, hang |-> FALSE]
    ELSE IF currentID \in visited
    THEN [files |-> NilFiles, root |-> NilSession, err |-> FALSE, hang |-> TRUE]
    ELSE LET l == Load(m, currentID)
         IN  IF l.err
             THEN [files |-> NilFiles, root |-> NilSession, err |-> TRUE, hang |-> FALSE]
             ELSE LET sess == l.session.val
                  IN  collectLoop(m, sess.ContinuedFrom,
                        seen \cup {sess.Files.elems[k] : k \in 1..Len(sess.Files.elems)},
                        IF sess.ContinuedFrom = 0 THEN l.session ELSE rootSession,
                        visited \cup {currentID})

\* Store.CollectReviewedFiles(sessionID)
CollectReviewedFiles(m, sessionID) ==
    collectLoop(m, sessionID, {}, NilSession, {})

-----------------------------------------------------------------------------
(* The store's operations as actions. mem is the record the caller holds   *)
(* and passes by pointer. ret is the last store operation and its results: *)
(* the id it was about, the error and values it returned, io (how the file *)
(* system answered it) and two history fields: top (a Delete removed the   *)
(* highest-numbered persisted session) and after (for a Create: the id     *)
(* such a Delete removed immediately before, else 0).                      *)

MaxOf(S) == IF S = {} THEN 0 ELSE CHOOSE x \in S : \A y \in S : x >= y

PersistedIds(m) == {m[d].id : d \in Persisted(m)}

Ret(op, id, err, io) ==
    [op |-> op, id |-> id, err |-> err, io |-> io,
     files |-> NilFiles, root |-> NilSession, hang |-> FALSE,
     top |-> FALSE, after |-> 0]

NoRet == Ret("none", 0, FALSE, "ok")

ZeroSession == Session("", 0, NilSlice, NilSlice)

\* store.Create(&sess) for a fresh literal sess. io = "readdir": os.ReadDir
\* fails in List; otherwise io is the outcome of the Save that Create ends in.
Create(sess, io) ==
    /\ clock < MaxClock
    /\ IF io = "readdir"
       THEN /\ mem' = sess
            /\ ret' = Ret("Create", 0, TRUE, io)
            /\ UNCHANGED <<meta, latest, clock, assigned>>
       ELSE LET s1 == createStamp(meta, sess, Now(clock + 1))
            IN  /\ s1.ID <= MaxId
                /\ meta' = saveMeta(meta, s1, io)
                /\ latest' = saveLatest(latest, s1, io)
                /\ mem' = s1
                /\ ret' = [Ret("Create", s1.ID, saveErr(io), io) EXCEPT
                             !.after = IF ret.op = "Delete" /\ ret.top THEN ret.id ELSE 0]
                /\ clock' = clock + 1
                /\ assigned' = IF saveErr(io) THEN assigned ELSE assigned \cup {s1.ID}
    /\ UNCHANGED <<scores, opts, grouped, wr, scored, kept, taken, procs>>

\* store.Save(mem), for a record that Create has given an id.
Save(io) ==
    /\ mem.ID \in Ids
    /\ meta' = saveMeta(meta, mem, io)
    /\ latest' = saveLatest(latest, mem, io)
    /\ ret' = Ret("Save", mem.ID, saveErr(io), io)
    /\ UNCHANGED <<mem, clock, assigned, scores, opts, grouped, wr, scored, kept, taken, procs>>

\* mem, err = store.Load(id)
LoadCall(id) ==
    /\ LET l == Load(meta, id)
       IN  /\ mem' = IF l.err THEN mem ELSE l.session.val
           /\ ret' = Ret("Load", id, l.err, "ok")
    /\ UNCHANGED <<meta, latest, clock, assigned, scores, opts, grouped, wr, scored, kept, taken, procs>>

\* store.Delete(id): os.RemoveAll of the session directory. The latest
\* pointer is not touched.
Delete(id) ==
    /\ meta' = [meta EXCEPT ![id] = NoFile]
    /\ ret' = [Ret("Delete", id, FALSE, "ok") EXCEPT
                 !.top = id \in Persisted(meta) /\ id = MaxOf(PersistedIds(meta))]
    /\ UNCHANGED <<latest, mem, clock, assigned, scores, opts, grouped, wr, scored, kept, taken, procs>>

\* store.CollectReviewedFiles(id)
Collect(id) ==
    /\ LET c == CollectReviewedFiles(meta, id)
       IN  ret' = [Ret("Collect", id, c.err, "ok") EXCEPT
                     !.files = c.files, !.root = c.root, !.hang = c.hang]
    /\ UNCHANGED <<meta, latest, mem, clock, assigned, scores, opts, grouped, wr, scored, kept, taken, procs>>

\* run, after the review: sess.Findings = result.Findings and
\* sess.Status = session.StatusCompleted.
AFinding ==
    [File |-> "a.go", Line |-> 42, Severity |-> "error", Category |-> "bug",
     Description |-> "d", SuggestedFix |-> ""]

RecordFindings(findings) ==
    /\ mem.ID \in Ids
    /\ mem' = [mem EXCEPT !.Findings = findings, !.Status = StatusCompleted]
    /\ mem' # mem
    /\ UNCHANGED <<meta, latest, ret, clock, assigned, scores, opts, grouped, wr, scored, kept, taken, procs>>

\* Nothing is kept aside, TakeFiles was not called, no invocation runs.
NotTaken == [called |-> FALSE]

NoProcs == <<>>

OthersIdle ==
    /\ kept = ZeroSession
    /\ taken = NotTaken
    /\ procs = NoProcs

GroupUnused ==
    /\ scores = <<>>
    /\ opts = Options(50, 0, TRUE, TRUE)
    /\ grouped = [outcome |-> "none", batches |-> <<>>]
    /\ scored = NotScored
    /\ OthersIdle

StoreEmpty ==
    /\ meta = EmptyStore
    /\ latest = 0
    /\ mem = ZeroSession
    /\ ret = NoRet
    /\ clock = 0
    /\ assigned = {}

WriteIdle == wr = [pc |-> "idle"]

-----------------------------------------------------------------------------
(* Specification SpecGroup: Group applied to bounded score lists.          *)

\* The paths of the scored files: sources with one or two tests beside
\* them, files that share a directory, files at the top level.
PathPool ==
    {"a/h.go", "a/h_test.go", "a/test_h.go", "a/s.go", "b/u.go", "x.ts", "x.spec.ts"}

TotalPool == {1, 2}

\* The score lists of at most MaxScores files with pairwise distinct paths.
ScoreLists ==
    UNION {{ss \in [1..n -> [Path : PathPool, Total : TotalPool]] :
                \A i, j \in 1..n : ss[i].Path = ss[j].Path => i = j} : n \in 0..MaxScores}

OptionsPool ==
    [MaxFilesPerBatch : (-1)..MaxPerBatch, MaxTotalFiles : {0, 2},
     GroupByPackage : BOOLEAN, PairTests : BOOLEAN]

NotGrouped == [outcome |-> "none", batches |-> <<>>]

InitGroup ==
    /\ scores \in ScoreLists
    /\ opts \in OptionsPool
    /\ grouped = NotGrouped
    /\ scored = NotScored
    /\ OthersIdle
    /\ StoreEmpty
    /\ WriteIdle

\* grouper.Group(scores), with the Go runtime choosing the map orders.
GroupCall ==
    /\ grouped.outcome = "none"
    /\ LET m == GroupMaps(scores, opts)
       IN  \E pairOrder \in KeyOrders(m.pairs), pkgOrder \in KeyOrders(m.packages) :
               grouped' = Group(scores, opts, pairOrder, pkgOrder)
    /\ UNCHANGED <<scores, opts, meta, latest, mem, ret, clock, assigned, wr, scored, kept, taken, procs>>

NextGroup == GroupCall

SpecGroup == InitGroup /\ [][NextGroup]_vars

\* The number of (batch, position) places at which path p occurs.
Occurrences(b, p) ==
    Cardinality({<<i, k>> \in (1..Len(b)) \X (1..MaxScores + 1) :
                    k <= Len(b[i].Files) /\ b[i].Files[k] = p})

InputPaths == {scores[i].Path : i \in 1..Len(scores)}

\* C1: with MaxTotalFiles = 0 and MaxFilesPerBatch >= 1, Group returns, every
\* input path is at exactly one place of exactly one returned batch, no batch
\* holds a path that was not in the input, and the batch sizes add up to N.
C1_GroupPartitionsInput ==
    (grouped.outcome # "none" /\ Len(scores) > 0
        /\ opts.MaxTotalFiles = 0 /\ opts.MaxFilesPerBatch >= 1)
    => /\ grouped.outcome = "ok"
       /\ \A p \in InputPaths : Occurrences(grouped.batches, p) = 1
       /\ \A i \in 1..Len(grouped.batches) :
            \A k \in 1..Len(grouped.batches[i].Files) :
                grouped.batches[i].Files[k] \in InputPaths
       /\ FilesInBatches(grouped.batches) = Len(scores)

\* C1 witness: a source with its test and a third file were grouped into a
\* test pair and a package batch.
C1_Witness ==
    /\ grouped.outcome = "ok"
    /\ Len(scores) = 3
    /\ opts.MaxTotalFiles = 0 /\ opts.MaxFilesPerBatch >= 1
    /\ opts.PairTests /\ opts.GroupByPackage
    /\ \E i, j \in 1..Len(grouped.batches) :
          /\ grouped.batches[i].Reason = "test-pair"
          /\ Len(grouped.batches[i].Files) = 2
          /\ grouped.batches[j].Reason = "same-package (b)"

\* The score list Group works on: the input cut to MaxTotalFiles.
GroupInput ==
    IF opts.MaxTotalFiles > 0 /\ Len(scores) > opts.MaxTotalFiles
    THEN SubSeq(scores, 1, opts.MaxTotalFiles) ELSE scores

\* The groups Group builds from the list: test pairs, packages, leftovers.
GroupsOf(m) ==
    ({m.pairs[k] : k \in DOMAIN m.pairs} \cup {m.packages[k] : k \in DOMAIN m.packages}
        \cup {m.ungrouped}) \ {<<>>}

BatchWithID(b, id) == CHOOSE x \in {b[i] : i \in 1..Len(b)} : x.ID = id

\* The files of the batches that begin with a path of the set, the batches
\* taken in the order of their ids.
RECURSIVE FilesByID(_, _, _)
FilesByID(b, id, paths) ==
    IF id > Len(b) THEN <<>>
    ELSE (IF BatchWithID(b, id).Files[1] \in paths THEN BatchWithID(b, id).Files ELSE <<>>)
         \o FilesByID(b, id + 1, paths)

\* C15: for MaxFilesPerBatch >= 1 no returned batch holds more than
\* MaxFilesPerBatch files, and the batches made from one group (a test pair,
\* a package, the leftovers), read in the order of their ids, hold the files
\* of the group in the group's order.
C15_BatchesWithinLimitInOrder ==
    (grouped.outcome = "ok" /\ opts.MaxFilesPerBatch >= 1) =>
        /\ \A i \in 1..Len(grouped.batches) :
              /\ Len(grouped.batches[i].Files) <= opts.MaxFilesPerBatch
              /\ Len(grouped.batches[i].Files) >= 1
        /\ \A g \in GroupsOf(GroupMaps(scores, opts)) :
              FilesByID(grouped.batches, 1, {g[k].Path : k \in 1..Len(g)}) = Paths(g)

\* C15 witness: a source with two tests was split, with MaxFilesPerBatch = 2,
\* into a batch of the source and its first test and a batch of the second
\* test.
C15_Witness ==
    /\ grouped.outcome = "ok" /\ opts.MaxFilesPerBatch = 2
    /\ \E i, j \in 1..Len(grouped.batches) :
          /\ grouped.batches[j].ID = grouped.batches[i].ID + 1
          /\ grouped.batches[i].Reason = "test-pair (split h.go)"
          /\ grouped.batches[j].Reason = "test-pair (split h.go)"
          /\ Len(grouped.batches[i].Files) = 2
          /\ grouped.batches[i].Files[1] = "a/h.go"
          /\ Len(grouped.batches[j].Files) = 1

\* The tests of the source path among the files Group works on, in order.
TestsOf(sourcePath) ==
    Paths(SelectSeq(GroupInput,
                    LAMBDA x : isTestFile(x.Path) /\ getSourcePath(x.Path) = sourcePath))

SourcePaths ==
    {GroupInput[i].Path : i \in {k \in 1..Len(GroupInput) : ~isTestFile(GroupInput[k].Path)}}

\* C16: with PairTests, a source file among the files Group works on that
\* has tests among them is, when the source and its tests fit in
\* MaxFilesPerBatch, in a batch with reason "test-pair" that holds the source
\* first and then its tests; a source file without a test among them is in
\* no test-pair batch.
C16_TestsPairedWithSource ==
    (grouped.outcome = "ok" /\ opts.PairTests /\ opts.MaxFilesPerBatch >= 1) =>
        \A s \in SourcePaths :
            /\ (TestsOf(s) # <<>> /\ 1 + Len(TestsOf(s)) <= opts.MaxFilesPerBatch) =>
                  \E i \in 1..Len(grouped.batches) :
                      /\ grouped.batches[i].Reason = "test-pair"
                      /\ grouped.batches[i].Files = <<s>> \o TestsOf(s)
            /\ TestsOf(s) = <<>> =>
                  \A i \in 1..Len(grouped.batches) :
                      (\E k \in 1..Len(grouped.batches[i].Files) : grouped.batches[i].Files[k] = s)
                          => ~HasPrefix(grouped.batches[i].Reason, "test-pair")

\* C16 witness: a test listed before its source came out behind it in a
\* test-pair batch, and a source without a test is in a package batch.
C16_Witness ==
    /\ grouped.outcome = "ok" /\ opts.PairTests /\ opts.GroupByPackage
    /\ Len(scores) = 3 /\ opts.MaxTotalFiles = 0
    /\ scores[1].Path = "a/h_test.go" /\ scores[2].Path = "a/h.go"
    /\ scores[3].Path = "a/s.go"
    /\ \E i, j \in 1..Len(grouped.batches) :
          /\ grouped.batches[i].Reason = "test-pair"
          /\ grouped.batches[i].Files = <<"a/h.go", "a/h_test.go">>
          /\ grouped.batches[j].Reason = "same-package (a)"
          /\ grouped.batches[j].Files = <<"a/s.go">>

\* C27: Group returns a batch list whatever the score list and the Options
\* are: no call ends in a loop that does not advance or in a panic.
C27_GroupTerminates ==
    grouped.outcome # "none" => grouped.outcome = "ok"

\* The returned batches do not increase in TotalScore.
BatchesDescending ==
    \A i \in 1..Len(grouped.batches) - 1 :
        grouped.batches[i].TotalScore >= grouped.batches[i + 1].TotalScore

\* C17 as claimed: the returned batches do not increase in TotalScore, and
\* batches of equal TotalScore are in the order of their ids.
C17_BatchesSortedTiesInOrder ==
    grouped.outcome = "ok" =>
        /\ BatchesDescending
        /\ \A i, j \in 1..Len(grouped.batches) :
              (i < j /\ grouped.batches[i].TotalScore = grouped.batches[j].TotalScore)
                  => grouped.batches[i].ID < grouped.batches[j].ID

-----------------------------------------------------------------------------
(* Specification SpecScore: ScoreFiles applied to bounded file lists, by a *)
(* Scorer with default or other weights, on repositories that answer       *)
(* FileChurn in different ways.                                            *)

ScorePaths == {"s/auth/l.go", "a/h.go", "a/h_test.go", "b/u.go", "c/v.go"}

LinePool == {<<1, 0>>, <<2, 1>>}

\* The file lists of at most MaxFiles files with pairwise distinct paths.
ScoreFileLists ==
    UNION {{[i \in 1..n |-> FileContent(ps[i], ls[i][1], ls[i][2])] :
                ps \in {q \in [1..n -> ScorePaths] : \A i, j \in 1..n : q[i] = q[j] => i = j},
                ls \in [1..n -> LinePool]} : n \in 0..MaxFiles}

\* Weights that sum to 1.0: the default ones, ones that put everything on
\* lines and criticality, and ones with a negative field (WithWeights takes
\* any Weights).
WeightsPool ==
    {DefaultWeights, Weights(50, 50, 0, 0, 0), Weights(150, -50, 0, 0, 0)}

\* A repository that does not exist: every lookup fails.
NoRepo == [p \in ScorePaths |-> ChurnResult(TRUE, 0)]

\* A repository with files of no, some and much churn and one failing lookup.
SomeRepo ==
    [p \in ScorePaths |->
        IF p = "a/h.go" THEN ChurnResult(FALSE, 60)
        ELSE IF p = "a/h_test.go" THEN ChurnResult(FALSE, 0)
        ELSE IF p = "s/auth/l.go" THEN ChurnResult(TRUE, 10)
        ELSE ChurnResult(FALSE, 10)]

InitScore ==
    /\ scores = <<>>
    /\ opts = Options(50, 0, TRUE, TRUE)
    /\ grouped = [outcome |-> "none", batches |-> <<>>]
    /\ StoreEmpty
    /\ WriteIdle
    /\ OthersIdle
    /\ scored \in [called : {FALSE}, files : ScoreFileLists,
                   weights : WeightsPool, churn : {NoRepo, SomeRepo}]

\* scores, err := scorer.ScoreFiles(ctx, files)
ScoreCall ==
    /\ ~scored.called
    /\ LET r == ScoreFiles(scored.files, scored.weights, scored.churn)
       IN  scored' = [called |-> TRUE, files |-> scored.files,
                      weights |-> scored.weights, churn |-> scored.churn,
                      scores |-> r.scores, err |-> r.err]
    /\ UNCHANGED <<scores, opts, grouped, meta, latest, mem, ret, clock, assigned, wr,
                   kept, taken, procs>>

NextScore == ScoreCall

SpecScore == InitScore /\ [][NextScore]_vars

\* The position in the returned list of the score of the input file i.
PosOf(i) ==
    CHOOSE k \in 1..Len(scored.scores) : scored.scores[k].Path = scored.files[i].Path

\* C13: ScoreFiles returns as many scores as it got files, one per input
\* path, and their totals do not increase along the list.
C13_OnePerFileSortedDescending ==
    scored.called =>
        /\ Len(scored.scores) = Len(scored.files)
        /\ \A i \in 1..Len(scored.files) :
              \E k \in 1..Len(scored.scores) : scored.scores[k].Path = scored.files[i].Path
        /\ \A k, l \in 1..Len(scored.scores) :
              scored.scores[k].Path = scored.scores[l].Path => k = l
        /\ \A k \in 1..Len(scored.scores) - 1 :
              scored.scores[k].Total >= scored.scores[k + 1].Total

\* C13 witness: three files given in ascending order of their totals came
\* back reversed.
C13_Witness ==
    /\ scored.called /\ Len(scored.files) = 3
    /\ scored.scores[1].Path = scored.files[3].Path
    /\ scored.scores[3].Path = scored.files[1].Path
    /\ scored.scores[1].Total > scored.scores[2].Total
    /\ scored.scores[2].Total > scored.scores[3].Total

\* C14 as claimed: two files with equal totals come back in the order in
\* which they were given.
C14_SortIsStable ==
    scored.called =>
        \A i, j \in 1..Len(scored.files) :
            (i < j /\ scored.scores[PosOf(i)].Total = scored.scores[PosOf(j)].Total)
                => PosOf(i) < PosOf(j)

\* The weights are non-negative and sum to 1.0.
WeightsSumToOne(w) ==
    w.LinesChanged + w.Criticality + w.Churn + w.TestCoverage + w.Recency = 100

WeightsNonNegative(w) ==
    /\ w.LinesChanged >= 0 /\ w.Criticality >= 0 /\ w.Churn >= 0
    /\ w.TestCoverage >= 0 /\ w.Recency >= 0

ScoreInRange(sc) ==
    /\ sc.Breakdown.LinesChangedScore >= 0
    /\ sc.Breakdown.CriticalityScore >= 0
    /\ sc.Breakdown.ChurnScore >= 0
    /\ sc.Breakdown.TestCoverageScore >= 0
    /\ sc.Breakdown.RecencyScore >= 0
    /\ sc.Breakdown.LinesChangedScore + sc.Breakdown.CriticalityScore
         + sc.Breakdown.ChurnScore + sc.Breakdown.TestCoverageScore
         + sc.Breakdown.RecencyScore = sc.Total
    /\ sc.Total >= 0
    /\ sc.Total <= 100 * ScoreUnit

\* C18 as claimed: for weights that sum to 1.0 every score has non-negative
\* components that sum to its total, and a total within [0, 100].
C18_TotalsInRange ==
    (scored.called /\ WeightsSumToOne(scored.weights)) =>
        \A k \in 1..Len(scored.scores) : ScoreInRange(scored.scores[k])

\* C18 amended: the same for weights that sum to 1.0 and are all
\* non-negative.
C18_TotalsInRangeNonNegative ==
    (scored.called /\ WeightsSumToOne(scored.weights)
        /\ WeightsNonNegative(scored.weights)) =>
        \A k \in 1..Len(scored.scores) : ScoreInRange(scored.scores[k])

\* C18 witness: a critical file with the most lines of the call reached 100
\* points, and another file got a third of the lines component.
C18_Witness ==
    /\ scored.called /\ WeightsNonNegative(scored.weights)
    /\ \E k, l \in 1..Len(scored.scores) :
          /\ scored.scores[k].Total = 100 * ScoreUnit
          /\ scored.scores[l].LinesChanged = 1
          /\ scored.scores[l].Breakdown.LinesChangedScore * 3
                = scored.weights.LinesChanged * ScoreUnit
          /\ scored.scores[l].Breakdown.LinesChangedScore > 0

\* The repository with every failing lookup answering no commits.
Absorbed(churn) ==
    [p \in DOMAIN churn |-> IF churn[p].err THEN ChurnResult(FALSE, 0) ELSE churn[p]]

\* C19: ScoreFiles returns no error; a file whose churn lookup failed has
\* churnCount 0 and churn component 0, and every file is scored as on a
\* repository where the failing lookups found no commits.
C19_ChurnFailureAbsorbed ==
    scored.called =>
        /\ ~scored.err
        /\ \A k \in 1..Len(scored.scores) :
              scored.churn[scored.scores[k].Path].err =>
                  /\ scored.scores[k].ChurnCount = 0
                  /\ scored.scores[k].Breakdown.ChurnScore = 0
        /\ scored.scores
             = ScoreFiles(scored.files, scored.weights, Absorbed(scored.churn)).scores

\* C19 witness: one lookup failed for a file that was returned with churn 0
\* while another file of the call was scored with its 60 commits, capped.
C19_Witness ==
    /\ scored.called /\ ~scored.err
    /\ scored.weights = DefaultWeights
    /\ \E k, l \in 1..Len(scored.scores) :
          /\ scored.churn[scored.scores[k].Path] = ChurnResult(TRUE, 10)
          /\ scored.scores[k].ChurnCount = 0
          /\ scored.scores[l].ChurnCount = 60
          /\ scored.scores[l].Breakdown.ChurnScore = 20 * ScoreUnit

-----------------------------------------------------------------------------
(* Specification SpecStore: one caller creating, saving, loading and       *)
(* deleting sessions.                                                      *)

\* The literal handed to Create, as run writes it.
RunSessions == {Session(StatusInProgress, 0, SliceOf(<<"a.go">>), NilSlice)}

InitStore == GroupUnused /\ StoreEmpty /\ WriteIdle

NextStore ==
    \/ \E sess \in RunSessions, io \in SaveOutcomes \cup {"readdir"} : Create(sess, io)
    \/ \E io \in SaveOutcomes : Save(io)
    \/ \E id \in Ids : LoadCall(id)
    \/ \E id \in Ids : Delete(id)

SpecStore == InitStore /\ [][NextStore]_vars

\* A step in which Create got past List and stamped the record.
CreateStamped == clock' = clock + 1

\* C2: Create assigns max+1 over the ids of the persisted sessions, 1 when
\* none is persisted, and never an id that a persisted session has.
C2_CreateAssignsMaxPlusOne ==
    [][CreateStamped =>
        /\ ret'.op = "Create"
        /\ ret'.id = MaxOf(PersistedIds(meta)) + 1
        /\ mem'.ID = ret'.id
        /\ (Persisted(meta) = {} => ret'.id = 1)
        /\ ret'.id \notin PersistedIds(meta)
        /\ ret'.id \notin Persisted(meta)
        /\ (~ret'.err => meta'[ret'.id].id = ret'.id)]_vars

\* C2 witness: with session 1 deleted and session 2 persisted, Create has
\* assigned 3.
C2_Witness ==
    /\ ret.op = "Create" /\ ~ret.err /\ ret.id = 3
    /\ Persisted(meta) = {2, 3}
    /\ mem.ID = 3

\* C3 as claimed: the Create that follows the Delete of the highest-numbered
\* persisted session assigns the deleted number.
C3_ReassignsDeletedNumber ==
    (ret.op = "Create" /\ ret.io # "readdir" /\ ret.after # 0) => ret.id = ret.after

\* C3 amended: that Create assigns max+1 over the remaining sessions, which
\* is at most the deleted number, and is the deleted number when the session
\* numbered one below it is still persisted or the deleted number was 1; the
\* deleted number then names the new session, stamped by this Create.
C3_ReassignsWhenContiguous ==
    [][(CreateStamped /\ ret.op = "Delete" /\ ret.top) =>
        /\ ret'.after = ret.id
        /\ ret'.id = MaxOf(PersistedIds(meta)) + 1
        /\ ret'.id <= ret.id
        /\ (ret.id = 1 \/ (ret.id - 1) \in PersistedIds(meta)) =>
              /\ ret'.id = ret.id
              /\ ~ret'.err => /\ Load(meta', ret.id).session.val.CreatedAt.wall = clock'
                              /\ \A d \in Persisted(meta) : meta[d].created_at < clock']_vars

\* C3 witness: session 2 was deleted while session 1 stayed, and the next
\* Create has stored a new session under 2.
C3_Witness ==
    /\ ret.op = "Create" /\ ~ret.err /\ ret.after = 2 /\ ret.id = 2
    /\ meta[2] # NoFile /\ meta[2].created_at = clock
    /\ meta[1] # NoFile

\* C4 as claimed: every successful Create assigns an id greater than every
\* id an earlier successful Create assigned.
C4_IdsStrictlyIncrease ==
    [][(CreateStamped /\ ~ret'.err) => \A a \in assigned : ret'.id > a]_vars

\* C4 amended: the first Create assigns 1 and every Create assigns an id greater than
\* the id of every session that an earlier Create assigned and that is still
\* persisted; it is greater than every id assigned before as long as all of
\* those are still persisted.
C4_IdsIncreaseOverPersisted ==
    [][CreateStamped =>
        /\ ret'.id >= 1
        /\ (clock = 0 => ret'.id = 1)
        /\ \A a \in assigned : a \in PersistedIds(meta) => ret'.id > a
        /\ (assigned \subseteq PersistedIds(meta) => \A a \in assigned : ret'.id > a)]_vars

\* C4 witness: three Creates without a Delete have assigned 1, 2 and 3.
C4_Witness ==
    /\ clock = 3 /\ assigned = {1, 2, 3}
    /\ ret.op = "Create" /\ ret.id = 3 /\ ~ret.err
    /\ Persisted(meta) = {1, 2, 3}
    /\ \A d \in Ids : meta[d].created_at = d

-----------------------------------------------------------------------------
(* Specification SpecRun: MaxRuns runs, each creating a session, recording *)
(* the findings and completing and saving it, between loads, saves and     *)
(* deletes of the sessions of the store.                                   *)

\* The literals handed to Create: status unset, in progress (run) or
\* completed (the package's tests).
StoreSessions ==
    {Session(st, 0, SliceOf(<<"a.go">>), NilSlice) :
        st \in {"", StatusInProgress, StatusCompleted}}

InitRun == GroupUnused /\ StoreEmpty /\ WriteIdle

\* run, up to store.Create(sess): one of the MaxRuns runs starts.
RunCreate(sess, io) ==
    /\ clock < MaxRuns
    /\ Create(sess, io)

NextRun ==
    \/ \E sess \in StoreSessions, io \in SaveOutcomes \cup {"readdir"} : RunCreate(sess, io)
    \/ \E io \in SaveOutcomes : Save(io)
    \/ \E id \in Ids : LoadCall(id)
    \/ \E id \in Ids : Delete(id)
    \/ \E fs \in {NilSlice, SliceOf(<<AFinding>>)} : RecordFindings(fs)

SpecRun == InitRun /\ [][NextRun]_vars

\* C9: a persisted session whose status is completed keeps that status in
\* every step that does not delete it, and a step changes the status of a
\* persisted session only forward along pending, in_progress, completed.
StatusRank(st) ==
    IF st = StatusPending THEN 1 ELSE IF st = StatusInProgress THEN 2
    ELSE IF st = StatusCompleted THEN 3 ELSE 0

SaveRan == ret.op \in {"Save", "Create"} /\ ret.io # "readdir"

\* C10 as claimed: after a Save that wrote its document the latest pointer
\* names the saved session.
C10_LatestAfterEverySave ==
    (SaveRan /\ ret.io \notin {"mkdir", "write"}) => latest = ret.id

\* C10 amended: after a Save whose document write and os.Symlink both
\* succeeded the pointer names the saved session; when os.Symlink fails Save
\* still returns nil and the pointer is absent or left where it was; when the
\* document write fails Save returns an error and pointer and documents are
\* as before.
C10_LatestAfterSave ==
    [][(ret'.op \in {"Save", "Create"} /\ ret'.io # "readdir") =>
        /\ ret'.io = "ok" => (latest' = ret'.id /\ ~ret'.err /\ meta'[ret'.id] # NoFile)
        /\ ret'.io = "symlink" => (latest' = 0 /\ ~ret'.err /\ meta'[ret'.id] # NoFile)
        /\ ret'.io = "remove" => (latest' = latest /\ ~ret'.err /\ meta'[ret'.id] # NoFile)
        /\ ret'.io \in {"mkdir", "write"} =>
              (ret'.err /\ latest' = latest /\ meta' = meta)]_vars

\* C10 witness: a Save moved the pointer from another session to the one
\* it wrote.
C10_Witness ==
    /\ ret.op = "Save" /\ ret.io = "ok" /\ ~ret.err
    /\ latest = ret.id
    /\ \E d \in Ids : d > ret.id /\ meta[d] # NoFile

-----------------------------------------------------------------------------
(* Specification SpecChain: sessions that continue one another.            *)

FileLists == {NilSlice, SliceOf(<<"a.go", "b.go">>), SliceOf(<<"b.go", "c.go">>)}

\* The literals handed to Create: any ContinuedFrom, as Create accepts it.
ChainSessions ==
    {Session(StatusInProgress, cf, fl, NilSlice) : cf \in 0..MaxId, fl \in FileLists}

InitChain == GroupUnused /\ StoreEmpty /\ WriteIdle

NextChain ==
    \/ \E sess \in ChainSessions : Create(sess, "ok")
    \/ Save("ok")
    \/ \E id \in Ids : Delete(id)
    \/ \E id \in 0..MaxId : Collect(id)

SpecChain == InitChain /\ [][NextChain]_vars

\* The ids on the continuation chain of id: id and whatever the persisted
\* sessions among them continue from.
RECURSIVE ChainFrom(_, _)
ChainFrom(m, S) ==
    LET next == S \cup {m[d].continued_from :
                          d \in {e \in S \cap Persisted(m) : "continued_from" \in DOMAIN m[e]}}
    IN  IF next = S THEN S ELSE ChainFrom(m, next)

Chain(m, id) == ChainFrom(m, {id})

ChainRoots(m, id) ==
    {d \in Chain(m, id) \cap Persisted(m) : "continued_from" \notin DOMAIN m[d]}

\* A well-formed chain: every session on it is persisted and one of them
\* continues from nothing.
WellFormedChain(m, id) ==
    /\ id > 0
    /\ Chain(m, id) \subseteq Persisted(m)
    /\ ChainRoots(m, id) # {}

ChainFiles(m, id) ==
    UNION {{m[d].files.elems[k] : k \in 1..Len(m[d].files.elems)} : d \in Chain(m, id)}

\* C5: on a well-formed chain CollectReviewedFiles returns the union of the
\* Files of the sessions of the chain and, as root, the session of the chain
\* that continues from nothing.
C5_CollectUnionAndRoot ==
    (ret.op = "Collect" /\ WellFormedChain(meta, ret.id)) =>
        /\ ~ret.err /\ ~ret.hang
        /\ ret.files = FilesOf(ChainFiles(meta, ret.id))
        /\ ~ret.root.isNil
        /\ ret.root.val.ID \in ChainRoots(meta, ret.id)
        /\ ret.root.val.ContinuedFrom = 0
        /\ Marshal(ret.root.val) = meta[ret.root.val.ID]

\* C5 witness: collected from 3 over the chain 1 <- 2 <- 3, with a file
\* that two of the sessions share.
C5_Witness ==
    /\ ret.op = "Collect" /\ ret.id = 3 /\ ~ret.err
    /\ Chain(meta, 3) = {1, 2, 3}
    /\ WellFormedChain(meta, 3)
    /\ ret.root.val.ID = 1
    /\ ret.files.set = {"a.go", "b.go", "c.go"}

\* C6: if a session on the chain from a positive starting id is not
\* persisted, CollectReviewedFiles returns an error, nil files and a nil root.
C6_MissingSessionIsFatal ==
    (ret.op = "Collect" /\ ret.id > 0 /\ ~(Chain(meta, ret.id) \ {0} \subseteq Persisted(meta))) =>
        /\ ret.err /\ ~ret.hang
        /\ ret.files = NilFiles
        /\ ret.root = NilSession

\* C6 witness: session 2 with files was loaded, the session 1 it continues
\* from is gone.
C6_Witness ==
    /\ ret.op = "Collect" /\ ret.id = 2 /\ ret.err
    /\ meta[2] # NoFile /\ Len(meta[2].files.elems) > 0
    /\ "continued_from" \in DOMAIN meta[2] /\ meta[2].continued_from = 1
    /\ meta[1] = NoFile

\* C7: the chain of every persisted session is well formed, so
\* CollectReviewedFiles returns, and when it returns without error for a
\* positive id its root is a session that continues from nothing.
C7_ChainsEndAtRoot ==
    /\ \A d \in Persisted(meta) : WellFormedChain(meta, d)
    /\ ret.op = "Collect" =>
          /\ ~ret.hang
          /\ (~ret.err /\ ret.id > 0) =>
                (~ret.root.isNil /\ ret.root.val.ContinuedFrom = 0)

-----------------------------------------------------------------------------
(* Specification SpecAtomic: one Save taken call by call, with a reader of *)
(* the session's meta.json and a process that can be killed between calls. *)
(* wr holds the position in Save (pc), the session directory (id), the     *)
(* bytes to write (data), how many pieces of them tmpFile.Write has put    *)
(* into the temporary file (written), the temporary file (tmp), the error  *)
(* Save returns (err) and, for the record: the store as Save found it      *)
(* (old), whether os.Rename has happened (renamed) and what the reader got *)
(* from its last os.ReadFile of meta.json (seen).                          *)

MaxChunks == 2      \* pieces in which tmpFile.Write puts the data on disk

\* A file holding the first n pieces of doc only.
Truncated(doc, n) == [truncated |-> TRUE, of |-> doc, written |-> n]

\* A file to which n of the MaxChunks pieces of doc have been written.
fileAfterWrite(doc, n) == IF n = MaxChunks THEN doc ELSE Truncated(doc, n)

Unread == [unread |-> TRUE]

\* tmpFile.Write putting the pieces into meta.json itself.
writeChunk_InPlace(m, w) ==
    [meta |-> [m EXCEPT ![w.id] = fileAfterWrite(w.data, w.written + 1)],
     tmp |-> w.tmp]

\* atomicWrite, tmpFile.Write: the next piece of data reaches the file that
\* os.CreateTemp made; meta.json is not written to.
writeChunk(m, w) ==
    [meta |-> m, tmp |-> fileAfterWrite(w.data, w.written + 1)]

\* The documents a store can hold before the Save: sessions that run created.
OldDoc(d) ==
    Marshal([Session(StatusInProgress, 0, SliceOf(<<"a.go">>), NilSlice) EXCEPT
                !.ID = d, !.CreatedAt = Now(d)])

\* The records handed to Save: a session that was created or loaded and then
\* completed by run.
AtomicSessions ==
    {[Unmarshal(OldDoc(d)) EXCEPT !.Status = StatusCompleted, !.Findings = fs] :
        d \in Ids, fs \in {NilSlice, SliceOf(<<AFinding>>)}}

InitAtomic ==
    /\ GroupUnused
    /\ meta \in [Ids -> {NoFile} \cup {OldDoc(d) : d \in Ids}]
    /\ \A d \in Ids : meta[d] # NoFile => meta[d] = OldDoc(d)
    /\ latest \in 0..MaxId
    /\ mem \in AtomicSessions
    /\ ret = NoRet /\ clock = 0 /\ assigned = {}
    /\ wr = [pc |-> "mkdir", id |-> mem.ID, data |-> NoFile, written |-> 0,
             tmp |-> NoFile, err |-> FALSE,
             old |-> meta, renamed |-> FALSE, seen |-> Unread]

atomicRest == <<scores, opts, grouped, mem, ret, clock, assigned, scored, kept, taken, procs>>

\* Save: os.MkdirAll(sessionDir), then json.MarshalIndent(session).
SaveMkdirAll(ok) ==
    /\ wr.pc = "mkdir"
    /\ wr' = IF ok THEN [wr EXCEPT !.pc = "createtemp", !.data = Marshal(mem)]
                   ELSE [wr EXCEPT !.pc = "returned", !.err = TRUE]
    /\ UNCHANGED <<meta, latest>> /\ UNCHANGED atomicRest

\* atomicWrite: os.CreateTemp(dir, ".tmp-*")
AtomicCreateTemp(ok) ==
    /\ wr.pc = "createtemp"
    /\ wr' = IF ok THEN [wr EXCEPT !.pc = "write", !.tmp = Truncated(wr.data, 0)]
                   ELSE [wr EXCEPT !.pc = "returned", !.err = TRUE]
    /\ UNCHANGED <<meta, latest>> /\ UNCHANGED atomicRest

\* atomicWrite: tmpFile.Write(data), one piece of it.
AtomicWritePiece ==
    /\ wr.pc = "write"
    /\ wr.written < MaxChunks
    /\ LET f == writeChunk(meta, wr)
       IN  /\ meta' = f.meta
           /\ wr' = [wr EXCEPT !.tmp = f.tmp, !.written = @ + 1,
                               !.pc = IF wr.written + 1 = MaxChunks THEN "close" ELSE "write"]
    /\ UNCHANGED latest /\ UNCHANGED atomicRest

\* atomicWrite: tmpFile.Write fails; Close and os.Remove(tmpPath), whose
\* errors are dropped (removed: os.Remove did remove the file).
AtomicWriteFails(removed) ==
    /\ wr.pc = "write"
    /\ wr' = [wr EXCEPT !.pc = "returned", !.err = TRUE,
                        !.tmp = IF removed THEN NoFile ELSE @]
    /\ UNCHANGED <<meta, latest>> /\ UNCHANGED atomicRest

\* atomicWrite: tmpFile.Close(); on its error os.Remove(tmpPath).
AtomicClose(ok, removed) ==
    /\ wr.pc = "close"
    /\ wr' = IF ok THEN [wr EXCEPT !.pc = "rename"]
                   ELSE [wr EXCEPT !.pc = "returned", !.err = TRUE,
                                   !.tmp = IF removed THEN NoFile ELSE @]
    /\ UNCHANGED <<meta, latest>> /\ UNCHANGED atomicRest

\* atomicWrite: os.Rename(tmpPath, path); on its error the temporary file
\* stays.
AtomicRename(ok) ==
    /\ wr.pc = "rename"
    /\ IF ok
       THEN /\ meta' = [meta EXCEPT ![wr.id] = wr.tmp]
            /\ wr' = [wr EXCEPT !.pc = "rmlatest", !.tmp = NoFile, !.renamed = TRUE]
       ELSE /\ meta' = meta
            /\ wr' = [wr EXCEPT !.pc = "returned", !.err = TRUE]
    /\ UNCHANGED latest /\ UNCHANGED atomicRest

\* Save: _ = os.Remove(latestPath)
SaveRemoveLatest(ok) ==
    /\ wr.pc = "rmlatest"
    /\ latest' = IF ok THEN 0 ELSE latest
    /\ wr' = [wr EXCEPT !.pc = "symlink"]
    /\ UNCHANGED meta /\ UNCHANGED atomicRest

\* Save: os.Symlink(targetPath, latestPath), which cannot succeed while the
\* name exists; its error is logged and Save returns nil.
SaveSymlink(ok) ==
    /\ wr.pc = "symlink"
    /\ ok => latest = 0
    /\ latest' = IF ok THEN wr.id ELSE latest
    /\ wr' = [wr EXCEPT !.pc = "returned"]
    /\ UNCHANGED meta /\ UNCHANGED atomicRest

\* The process is killed between two calls: the files stay as they are.
Interrupt ==
    /\ wr.pc \notin {"returned", "killed"}
    /\ wr' = [wr EXCEPT !.pc = "killed"]
    /\ UNCHANGED <<meta, latest>> /\ UNCHANGED atomicRest

\* Another process reads sessions/<id>/meta.json (os.ReadFile in Load).
ReadMeta ==
    /\ wr.seen # meta[wr.id]
    /\ wr' = [wr EXCEPT !.seen = meta[wr.id]]
    /\ UNCHANGED <<meta, latest>> /\ UNCHANGED atomicRest

NextAtomic ==
    \/ \E ok \in BOOLEAN : SaveMkdirAll(ok)
    \/ \E ok \in BOOLEAN : AtomicCreateTemp(ok)
    \/ AtomicWritePiece
    \/ \E removed \in BOOLEAN : AtomicWriteFails(removed)
    \/ \E ok, removed \in BOOLEAN : AtomicClose(ok, removed)
    \/ \E ok \in BOOLEAN : AtomicRename(ok)
    \/ \E ok \in BOOLEAN : SaveRemoveLatest(ok)
    \/ \E ok \in BOOLEAN : SaveSymlink(ok)
    \/ Interrupt
    \/ ReadMeta

SpecAtomic == InitAtomic /\ [][NextAtomic]_vars

\* C8: during a Save and after it has returned or been killed, meta.json of
\* the session holds the complete previous document (or is absent as before)
\* or the complete new document, and so does whatever a reader has read; as
\* long as os.Rename has not happened it is the previous one; the documents
\* of the other sessions stay as they were.
C8_WriteIsAtomic ==
    wr.pc # "idle" =>
        /\ meta[wr.id] \in {wr.old[wr.id], Marshal(mem)}
        /\ wr.seen \in {Unread, wr.old[wr.id], Marshal(mem)}
        /\ "truncated" \notin DOMAIN meta[wr.id]
        /\ "truncated" \notin DOMAIN wr.seen
        /\ ~wr.renamed => meta[wr.id] = wr.old[wr.id]
        /\ (wr.renamed /\ wr.pc # "killed") => meta[wr.id] = Marshal(mem)
        /\ (wr.pc = "returned" /\ ~wr.err) => meta[wr.id] = Marshal(mem)
        /\ \A d \in Ids \ {wr.id} : meta[d] = wr.old[d]

\* C8 witness: the process was killed while the temporary file held a part
\* of the new document, and the reader has read the previous document.
C8_Witness ==
    /\ wr.pc = "killed" /\ ~wr.renamed
    /\ "truncated" \in DOMAIN wr.tmp /\ wr.tmp.written = 1
    /\ wr.old[wr.id] # NoFile
    /\ wr.seen = wr.old[wr.id]
    /\ wr.seen # Marshal(mem)


-----------------------------------------------------------------------------
(* Specification SpecContinue: successive runs of the command over one     *)
(* diff, each with its own flags, a run being able to continue from any    *)
(* session number given on the command line.                               *)

\* A git.DiffFile as gatherFileContents reads it.
DiffFile(path, added, deleted, isBinary) ==
    [Path |-> path, LinesAdded |-> added, LinesDeleted |-> deleted, IsBinary |-> isBinary]

\* The diff the runs review: four text files and a binary one.
DiffFiles ==
    <<DiffFile("c/v.go", 1, 0, FALSE), DiffFile("a/h.go", 2, 1, FALSE),
      DiffFile("logo.png", 0, 0, TRUE), DiffFile("s/auth/l.go", 1, 0, FALSE),
      DiffFile("b/u.go", 1, 0, FALSE)>>

\* rcontext.gatherFileContents that does not skip the excluded files.
RECURSIVE gatherFileContents_NoExclude(_, _, _)
gatherFileContents_NoExclude(diffFiles, i, excludeSet) ==
    IF i > Len(diffFiles) THEN <<>>
    ELSE LET df == diffFiles[i]
         IN  IF df.IsBinary
             THEN gatherFileContents_NoExclude(diffFiles, i + 1, excludeSet)
             ELSE <<FileContent(df.Path, df.LinesAdded, df.LinesDeleted)>>
                  \o gatherFileContents_NoExclude(diffFiles, i + 1, excludeSet)

\* rcontext.gatherFileContents with opts.MaxFiles = 0, as run calls it: the
\* files of the diff that are neither excluded nor binary, in order.
RECURSIVE gatherFileContents(_, _, _)
gatherFileContents(diffFiles, i, excludeSet) ==
    IF i > Len(diffFiles) THEN <<>>
    ELSE LET df == diffFiles[i]
         IN  IF df.Path \in excludeSet \/ df.IsBinary
             THEN gatherFileContents(diffFiles, i + 1, excludeSet)
             ELSE <<FileContent(df.Path, df.LinesAdded, df.LinesDeleted)>>
                  \o gatherFileContents(diffFiles, i + 1, excludeSet)

\* Byte-wise comparison of two paths, a < b.
RECURSIVE StringLess(_, _)
StringLess(a, b) ==
    IF b = "" THEN FALSE
    ELSE IF a = "" THEN TRUE
    ELSE LET alphabet == "./_abcdefghijklmnopqrstuvwxyz"
             ca == Index(alphabet, SubSeq(a, 1, 1))
             cb == Index(alphabet, SubSeq(b, 1, 1))
         IN  IF ca # cb THEN ca < cb
             ELSE StringLess(SubSeq(a, 2, Len(a)), SubSeq(b, 2, Len(b)))

\* main.sortScores, case "alpha": the inner loop for one i.
RECURSIVE sortAlphaInner(_, _, _)
sortAlphaInner(sc, i, j) ==
    IF j > Len(sc) THEN sc
    ELSE IF StringLess(sc[j].Path, sc[i].Path)
         THEN With([sc EXCEPT ![i] = sc[j], ![j] = sc[i]],
                   LAMBDA swapped : sortAlphaInner(swapped, i, j + 1))
         ELSE sortAlphaInner(sc, i, j + 1)

RECURSIVE sortAlphaOuter(_, _)
sortAlphaOuter(sc, i) ==
    IF i > Len(sc) THEN sc
    ELSE With(sortAlphaInner(sc, i, i + 1),
              LAMBDA sorted : sortAlphaOuter(sorted, i + 1))

\* main.sortScores
sortScores(sc, sortOrder) ==
    IF sortOrder = "alpha" THEN sortAlphaOuter(sc, 1) ELSE sc

\* main.filterFiles: the files whose path is among the scores, in the order
\* of files; nil when there is none.
filterFiles(files, sc) ==
    SelectSeq(files, LAMBDA f : \E k \in 1..Len(sc) : sc[k].Path = f.Path)

\* The session literal of run with FilesReviewed taken from the scores.
runSession_Scored(changedFiles, nScores, excludeFiles, continueFrom) ==
    [ID |-> 0, CreatedAt |-> ZeroTime,
     BaseCommit |-> "abc123", HeadCommit |-> "def456",
     TotalFilesInDiff |-> nScores + (IF continueFrom > 0 THEN Cardinality(excludeFiles) ELSE 0),
     FilesReviewed |-> nScores,
     FilesRemaining |-> nScores - Len(changedFiles),
     Status |-> StatusInProgress, ContinuedFrom |-> continueFrom,
     Files |-> IF Len(changedFiles) = 0 THEN NilSlice
               ELSE SliceOf([k \in 1..Len(changedFiles) |-> changedFiles[k].Path]),
     Findings |-> NilSlice]

\* The session literal of run with FilesRemaining counted from the whole
\* diff, the files reviewed in earlier sessions included.
runSession_TotalRemaining(changedFiles, nScores, excludeFiles, continueFrom) ==
    [ID |-> 0, CreatedAt |-> ZeroTime,
     BaseCommit |-> "abc123", HeadCommit |-> "def456",
     TotalFilesInDiff |-> nScores + (IF continueFrom > 0 THEN Cardinality(excludeFiles) ELSE 0),
     FilesReviewed |-> Len(changedFiles),
     FilesRemaining |-> nScores + (IF continueFrom > 0 THEN Cardinality(excludeFiles) ELSE 0)
                            - Len(changedFiles),
     Status |-> StatusInProgress, ContinuedFrom |-> continueFrom,
     Files |-> IF Len(changedFiles) = 0 THEN NilSlice
               ELSE SliceOf([k \in 1..Len(changedFiles) |-> changedFiles[k].Path]),
     Findings |-> NilSlice]

\* run: the session literal and the loop that appends the paths of the
\* filtered changed files to sess.Files.
runSession(changedFiles, nScores, excludeFiles, continueFrom) ==
    [ID |-> 0, CreatedAt |-> ZeroTime,
     BaseCommit |-> "abc123", HeadCommit |-> "def456",
     TotalFilesInDiff |-> nScores + (IF continueFrom > 0 THEN Cardinality(excludeFiles) ELSE 0),
     FilesReviewed |-> Len(changedFiles),
     FilesRemaining |-> nScores - Len(changedFiles),
     Status |-> StatusInProgress, ContinuedFrom |-> continueFrom,
     Files |-> IF Len(changedFiles) = 0 THEN NilSlice
               ELSE SliceOf([k \in 1..Len(changedFiles) |-> changedFiles[k].Path]),
     Findings |-> NilSlice]

\* The churn the repository of the runs answers.
RunRepo == SomeRepo @@ [p \in {"logo.png"} |-> ChurnResult(FALSE, 0)]

DiffPaths == {DiffFiles[i].Path : i \in 1..Len(DiffFiles)}

\* run, from rcontext.Gather to sortScores, for the files excluded: the
\* changed files gathered and their scores as scorer.ScoreFiles and
\* sortScores leave them for each --sort flag.
gatherAndScore(excluded) ==
    With(gatherFileContents(DiffFiles, 1, excluded), LAMBDA changed :
    With(ScoreFiles(changed, DefaultWeights, RunRepo).scores, LAMBDA sc :
         [excluded |-> excluded, changed |-> changed,
          priority |-> sortScores(sc, "priority"),
          alpha |-> sortScores(sc, "alpha"),
          none |-> sortScores(sc, "none")]))

\* gatherAndScore for every set of excluded files of the diff.
runScores == {gatherAndScore(excluded) : excluded \in SUBSET DiffPaths}

\* The flags of a run: --max-files, --on-limit and --sort.
RunFlags == [maxFiles : 1..2, onLimit : {"continue", "stop"}, sortBy : {"priority", "alpha"}]

\* run, from the --continue handling to store.Create(sess). A run that
\* returns before store.Create (the chain cannot be collected, nothing is
\* left to review, too many files with --on-limit stop) changes nothing.
\* The file system answers store.Create well here; SpecRun has the runs whose
\* Create fails.
RunStart(continueFrom) ==
    \E c \in {CollectReviewedFiles(meta, continueFrom)} :
      /\ continueFrom > 0 => (~c.err /\ ~c.hang)
      /\ \E excludeFiles \in {IF continueFrom > 0 THEN c.files.set ELSE {}} :
         \E gathered \in {r \in runScores : r.excluded = excludeFiles \cap DiffPaths} :
            /\ Len(gathered.changed) > 0
            /\ \E flags \in RunFlags, io \in {"ok"} :
                  LET sorted == gathered[flags.sortBy]
                      over   == flags.maxFiles > 0 /\ Len(sorted) > flags.maxFiles
                      filesToReview == IF over THEN SubSeq(sorted, 1, flags.maxFiles)
                                       ELSE sorted
                  IN  /\ ~(over /\ flags.onLimit = "stop")
                      /\ Create(runSession(filterFiles(gathered.changed, filesToReview),
                                           Len(sorted), excludeFiles, continueFrom), io)

InitContinue == GroupUnused /\ StoreEmpty /\ WriteIdle

NextContinue ==
    \/ \E continueFrom \in 0..MaxId : RunStart(continueFrom)
    \/ \E fs \in {NilSlice, SliceOf(<<AFinding>>)} : RecordFindings(fs)
    \/ \E io \in {"ok", "write"} : Save(io)

SpecContinue == InitContinue /\ [][NextContinue]_vars

DocFiles(doc) == {doc.files.elems[k] : k \in 1..Len(doc.files.elems)}

\* C12: no path is in the Files of two sessions of one chain of persisted
\* sessions.
C12_NoFileReviewedTwice ==
    \A d \in Persisted(meta) :
        \A x, y \in Chain(meta, d) \cap Persisted(meta) :
            x # y => DocFiles(meta[x]) \cap DocFiles(meta[y]) = {}

\* C12 witness: three runs, each continuing from the one before, reviewed
\* three different files of the diff.
C12_Witness ==
    \E d \in Persisted(meta) :
        /\ Chain(meta, d) = {1, 2, 3}
        /\ Chain(meta, d) \subseteq Persisted(meta)
        /\ Cardinality(ChainFiles(meta, d)) = 3
        /\ \A x \in Chain(meta, d) : Len(meta[x].files.elems) = 1

\* The document of session d turns completed in this step.
TurnsCompleted(d) ==
    /\ meta'[d] # NoFile
    /\ meta'[d].status = StatusCompleted
    /\ (meta[d] = NoFile \/ meta[d].status # StatusCompleted)

\* C29: a session's document turns completed only by the Save of a record
\* on which the findings were recorded before; a session that is in progress
\* has no findings; and the session a continuing run creates holds no file
\* of any session of the chain it continues, whatever their status.
C29_AbandonedSessionFilesExcluded ==
    [][/\ \A d \in Ids :
              TurnsCompleted(d) =>
                  /\ ret'.op = "Save" /\ ~ret'.err
                  /\ mem.ID = d /\ mem.Status = StatusCompleted
                  /\ meta'[d] = Marshal(mem)
                  /\ meta[d] # NoFile /\ meta[d].status = StatusInProgress
       /\ \A d \in Persisted(meta') :
              meta'[d].status = StatusInProgress => "findings" \notin DOMAIN meta'[d]
       /\ (ret'.op = "Create" /\ meta' # meta /\ mem'.ContinuedFrom > 0) =>
              /\ meta'[mem'.ID].status = StatusInProgress
              /\ DocFiles(meta'[mem'.ID]) \cap ChainFiles(meta, mem'.ContinuedFrom) = {}]_vars

\* C29 witness: session 1 was left in progress without findings, and the
\* run that continued from it reviewed other files of the diff and was
\* saved as completed with its findings.
C29_Witness ==
    /\ meta[1] # NoFile /\ meta[2] # NoFile
    /\ meta[1].status = StatusInProgress
    /\ "findings" \notin DOMAIN meta[1]
    /\ DocFiles(meta[1]) # {}
    /\ "continued_from" \in DOMAIN meta[2] /\ meta[2].continued_from = 1
    /\ meta[2].status = StatusCompleted
    /\ "findings" \in DOMAIN meta[2]
    /\ DocFiles(meta[2]) # {}
    /\ DocFiles(meta[2]) \cap DocFiles(meta[1]) = {}
    /\ meta[2].total_files_in_diff = meta[2].files_reviewed + meta[2].files_remaining
                                        + Cardinality(DocFiles(meta[1]))
\* C20: after a Save that returned nil, Load of the session's id returns a
\* session with the commits, counts, status, continuedFrom, files and
\* findings of the session saved, and saving that session again, however
\* the file system answers, leaves every document as it is.
C20_SaveRoundTripsAndIsIdempotent ==
    [][(ret'.op = "Save" /\ ~ret'.err /\ mem' = mem /\ vars' # vars) =>
        LET l == Load(meta', mem'.ID)
        IN  /\ ~l.err
            /\ l.session.val.ID = mem'.ID
            /\ l.session.val.CreatedAt.wall = mem'.CreatedAt.wall
            /\ l.session.val.BaseCommit = mem'.BaseCommit
            /\ l.session.val.HeadCommit = mem'.HeadCommit
            /\ l.session.val.TotalFilesInDiff = mem'.TotalFilesInDiff
            /\ l.session.val.FilesReviewed = mem'.FilesReviewed
            /\ l.session.val.FilesRemaining = mem'.FilesRemaining
            /\ l.session.val.Status = mem'.Status
            /\ l.session.val.ContinuedFrom = mem'.ContinuedFrom
            /\ l.session.val.Files = mem'.Files
            /\ l.session.val.Findings.elems = mem'.Findings.elems
            /\ \A io \in SaveOutcomes : saveMeta(meta', mem', io) = meta']_vars

\* C20 witness: a continuing session was saved as completed with a finding
\* and its document holds them.
C20_Witness ==
    /\ ret.op = "Save" /\ ~ret.err
    /\ mem.ContinuedFrom > 0
    /\ mem.Status = StatusCompleted
    /\ mem.Findings = SliceOf(<<AFinding>>)
    /\ meta[mem.ID] = Marshal(mem)
    /\ Unmarshal(meta[mem.ID]).Findings = mem.Findings
    /\ Unmarshal(meta[mem.ID]).ContinuedFrom = mem.ContinuedFrom


-----------------------------------------------------------------------------
(* Specification SpecLatest: a caller that holds two session records,      *)
(* creates, saves and deletes sessions and asks for the latest one.        *)

\* The caller turns to the other record it holds: the next Save is of it.
Switch ==
    /\ mem' = kept
    /\ kept' = mem
    /\ mem' # mem
    /\ UNCHANGED <<meta, latest, ret, clock, assigned, scores, opts, grouped, wr,
                   scored, taken, procs>>

\* sess, err := store.LoadLatest()
LoadLatestCall(listErr) ==
    /\ LET l == LoadLatest(meta, listErr)
       IN  ret' = Ret("LoadLatest", IF l.err THEN 0 ELSE l.session.val.ID, l.err,
                      IF listErr THEN "readdir" ELSE "ok")
    /\ UNCHANGED <<meta, latest, mem, clock, assigned, scores, opts, grouped, wr,
                   scored, kept, taken, procs>>

InitLatest == GroupUnused /\ StoreEmpty /\ WriteIdle

\* store.Create(&sess) for a fresh literal; the record held before is kept.
CreateKeeping(sess, io) ==
    /\ clock < MaxClock
    /\ io # "readdir"
    /\ LET s1 == createStamp(meta, sess, Now(clock + 1))
       IN  /\ s1.ID <= MaxId
           /\ meta' = saveMeta(meta, s1, io)
           /\ latest' = saveLatest(latest, s1, io)
           /\ mem' = s1
           /\ kept' = mem
           /\ ret' = Ret("Create", s1.ID, saveErr(io), io)
           /\ clock' = clock + 1
           /\ assigned' = IF saveErr(io) THEN assigned ELSE assigned \cup {s1.ID}
    /\ UNCHANGED <<scores, opts, grouped, wr, scored, taken, procs>>

NextLatest ==
    \/ \E sess \in RunSessions, io \in {"ok", "write"} : CreateKeeping(sess, io)
    \/ \E io \in {"ok", "write"} : Save(io)
    \/ \E id \in Ids : Delete(id)
    \/ Switch
    \/ \E listErr \in BOOLEAN : LoadLatestCall(listErr)

SpecLatest == InitLatest /\ [][NextLatest]_vars

\* The persisted sessions created latest.
MostRecent(m) ==
    {d \in Persisted(m) : \A e \in Persisted(m) : m[e].created_at <= m[d].created_at}

\* LoadLatest returns the persisted session of the highest id and an error
\* when os.ReadDir fails or no session is persisted.
LoadLatestReturnsHighestID ==
    ret.op = "LoadLatest" =>
        IF ret.io = "readdir" \/ Persisted(meta) = {}
        THEN ret.err /\ ret.id = 0
        ELSE ~ret.err /\ ret.id = MaxOf(PersistedIds(meta))

\* C21 as claimed: LoadLatest returns an error when no session is persisted;
\* otherwise it returns the persisted session of the highest id, and that
\* session is the one created latest among the persisted ones.
C21_LoadLatestIsMostRecent ==
    (ret.op = "LoadLatest" /\ ret.io = "ok") =>
        IF Persisted(meta) = {}
        THEN ret.err
        ELSE /\ ~ret.err
             /\ ret.id = MaxOf(PersistedIds(meta))
             /\ ret.id \in MostRecent(meta)



-----------------------------------------------------------------------------
(* Specification SpecFrame: every operation of the Store, on literals with *)
(* and without a status.                                                   *)

InitFrame == GroupUnused /\ StoreEmpty /\ WriteIdle

NextFrame ==
    \/ \E sess \in StoreSessions, io \in {"ok", "write"} : RunCreate(sess, io)
    \/ \E io \in {"ok", "write"} : Save(io)
    \/ \E id \in Ids : LoadCall(id)
    \/ \E id \in Ids : Delete(id)
    \/ \E id \in Ids : Collect(id)
    \/ \E listErr \in BOOLEAN : LoadLatestCall(listErr)
    \/ \E fs \in {SliceOf(<<AFinding>>)} : RecordFindings(fs)

SpecFrame == InitFrame /\ [][NextFrame]_vars

\* A step in which a store operation acted.
StoreStep == ret' # ret \/ meta' # meta \/ latest' # latest

\* Every document but that of the session number is as it was.
OthersUntouched(id) == \A d \in Ids : d # id => meta'[d] = meta[d]

\* What Save, Load, LoadLatest (List), Delete and CollectReviewedFiles leave
\* alone: the records the caller holds and the documents of other sessions.
ReadsAndSavesKeepFrame ==
    /\ ret'.op = "Save" => (mem' = mem /\ kept' = kept /\ OthersUntouched(mem.ID))
    /\ ret'.op = "Delete" => (mem' = mem /\ kept' = kept /\ OthersUntouched(ret'.id))
    /\ ret'.op \in {"Load", "LoadLatest", "Collect"} => (meta' = meta /\ kept' = kept)
    /\ ret'.op \in {"LoadLatest", "Collect"} => mem' = mem

\* C23 as claimed: the record Create was handed differs from the literal
\* only in ID and CreatedAt, and Save, Load, List, Delete and
\* CollectReviewedFiles change no record of the caller and no document of
\* another session.
C23_CreateSetsIdAndTimeOnly ==
    [][StoreStep =>
        /\ ret'.op = "Create" =>
              /\ \E lit \in StoreSessions :
                    mem' = [lit EXCEPT !.ID = mem'.ID, !.CreatedAt = mem'.CreatedAt]
              /\ OthersUntouched(mem'.ID)
        /\ ReadsAndSavesKeepFrame]_vars

\* C23 amended: the record Create was handed differs from the literal only
\* in ID, CreatedAt and, when the literal had no status, in Status, which
\* is then pending; the rest as claimed.
C23_CreateSetsIdTimeAndUnsetStatus ==
    [][StoreStep =>
        /\ ret'.op = "Create" =>
              /\ \E lit \in StoreSessions :
                    mem' = [lit EXCEPT !.ID = mem'.ID, !.CreatedAt = mem'.CreatedAt,
                                       !.Status = IF lit.Status = "" THEN StatusPending
                                                  ELSE lit.Status]
              /\ OthersUntouched(mem'.ID)
        /\ ReadsAndSavesKeepFrame]_vars

\* C23 witness: a Create of a literal without status stamped it pending
\* beside the document of a completed session, which a Save had written.
C23_Witness ==
    /\ ret.op = "Create" /\ ~ret.err
    /\ mem.Status = StatusPending
    /\ meta[mem.ID] = Marshal(mem)
    /\ \E d \in Persisted(meta) :
          /\ d # mem.ID
          /\ meta[d].status = StatusCompleted
          /\ "findings" \in DOMAIN meta[d]

-----------------------------------------------------------------------------
(* Specification SpecTake: TakeFiles applied to bounded batch lists.       *)

\* Batches of one, two and three files, as the test of TakeFiles has them.
TakePool ==
    {[ID |-> 0, Files |-> SubSeq(<<"a.go", "b.go", "c.go">>, 1, n),
      Reason |-> "ungrouped", TotalScore |-> n] : n \in 1..3}

TakeLists == UNION {[1..n -> TakePool] : n \in 0..MaxBatches}

InitTake ==
    /\ scores = <<>>
    /\ opts = Options(50, 0, TRUE, TRUE)
    /\ grouped = NotGrouped
    /\ scored = NotScored
    /\ kept = ZeroSession
    /\ procs = NoProcs
    /\ StoreEmpty
    /\ WriteIdle
    /\ taken \in [called : {FALSE}, batches : TakeLists, maxFiles : (-1)..(2 * MaxBatches)]

\* result := TakeFiles(batches, maxFiles)
TakeCall ==
    /\ ~taken.called
    /\ taken' = [called |-> TRUE, batches |-> taken.batches, maxFiles |-> taken.maxFiles,
                 result |-> TakeFiles(taken.batches, taken.maxFiles)]
    /\ UNCHANGED <<scores, opts, grouped, meta, latest, mem, ret, clock, assigned, wr,
                   scored, kept, procs>>

NextTake == TakeCall

SpecTake == InitTake /\ [][NextTake]_vars

\* C22: the result of TakeFiles is a prefix of the batch list whose files
\* number at most maxFiles, and it stops before the first batch that would
\* take the count over maxFiles: no batch from there on is in it.
C22_TakeFilesLongestPrefix ==
    taken.called =>
        LET k == Len(taken.result)
        IN  /\ k <= Len(taken.batches)
            /\ taken.result = SubSeq(taken.batches, 1, k)
            /\ k > 0 => FilesInBatches(taken.result) <= taken.maxFiles
            /\ k < Len(taken.batches) =>
                  FilesInBatches(SubSeq(taken.batches, 1, k + 1)) > taken.maxFiles
            /\ \A j \in 0..Len(taken.batches) :
                  (j = 0 \/ FilesInBatches(SubSeq(taken.batches, 1, j)) <= taken.maxFiles)
                      => j <= k

\* C22 witness: the second batch did not fit and the third, which would
\* have fitted, was left out with it.
C22_Witness ==
    /\ taken.called
    /\ Len(taken.batches) = 3 /\ Len(taken.result) = 1
    /\ Len(taken.batches[2].Files) = 3
    /\ FilesInBatches(taken.result) + Len(taken.batches[3].Files) <= taken.maxFiles

-----------------------------------------------------------------------------
(* Specification SpecCritical: ScoreFiles on one file whose path is or is  *)
(* not in a critical area.                                                 *)

\* The paths of TestIsCriticalPath that the documentation names, and paths
\* that hold a pattern's word in another case, outside a directory name or
\* in the top directory.
CriticalPool ==
    {"pkg/auth/handler.go", "pkg/payment/stripe.go", "pkg/store/credential_store.go",
     "pkg/utils/helper.go", "main.go",
     "pkg/Auth/x.go", "pkg/TOKEN.go", "pkg/handler.go", "auth/login.go", "api.go"}

\* A repository that does not exist and one with ten commits per file.
CriticalRepos ==
    {[p \in CriticalPool |-> ChurnResult(TRUE, 0)],
     [p \in CriticalPool |-> ChurnResult(FALSE, 10)]}

InitCritical ==
    /\ scores = <<>>
    /\ opts = Options(50, 0, TRUE, TRUE)
    /\ grouped = NotGrouped
    /\ StoreEmpty
    /\ WriteIdle
    /\ OthersIdle
    /\ scored \in [called : {FALSE},
                   files : {<<FileContent(p, l[1], l[2])>> : p \in CriticalPool, l \in LinePool},
                   weights : WeightsPool, churn : CriticalRepos]

NextCritical == ScoreCall

SpecCritical == InitCritical /\ [][NextCritical]_vars

\* The words the documentation lists.
C24_Fragments ==
    {"auth", "security", "crypto", "api", "handler", "controller", "middleware",
     "payment", "billing", "admin", "password", "secret", "token", "credential"}

\* The words that name a directory and the words that may stand anywhere.
C24_Directories ==
    {"auth", "security", "crypto", "api", "handler", "controller", "middleware",
     "payment", "billing", "admin"}

C24_Words == {"password", "secret", "token", "credential"}

C24_Critical == {"pkg/auth/handler.go", "pkg/payment/stripe.go", "pkg/store/credential_store.go"}

C24_NotCritical == {"pkg/utils/helper.go", "main.go"}

\* The named paths are judged as documented and the criticality component
\* is 100 * weight for a critical file and 0 for any other.
C24_ExamplesAndComponent(sc) ==
    /\ sc.Path \in C24_Critical => sc.IsCriticalPath
    /\ sc.Path \in C24_NotCritical => ~sc.IsCriticalPath
    /\ sc.Breakdown.CriticalityScore =
          IF sc.IsCriticalPath THEN scored.weights.Criticality * ScoreUnit ELSE 0

-----------------------------------------------------------------------------
(* Specification SpecRace: two invocations of the tool run Store.Create on *)
(* one state directory; each step is one access to the directory.          *)

Invocations == {1, 2}

\* The literal an invocation hands to Create: the files differ, so that the
\* documents can be told apart.
RaceSession(p) ==
    Session(StatusInProgress, 0,
            SliceOf(IF p = 1 THEN <<"a.go">> ELSE <<"b.go">>), NilSlice)

\* An invocation before its Create: nothing listed, nothing returned.
RaceIdle(p) == [pc |-> "idle", sess |-> RaceSession(p), seen |-> {}, err |-> FALSE]

\* Create up to the call of Save, with the highest id taken over the listed
\* sessions and the ids other invocations hold and have not yet written.
raceStamp_Reserved(m, ps, p, now) ==
    LET held == {ps[q].sess.ID : q \in {r \in Invocations : r # p /\ ps[r].pc = "scanned"}}
        s1   == createStamp(m, ps[p].sess, now)
    IN  [s1 EXCEPT !.ID = MaxOf({@ - 1} \cup held) + 1]

\* Create up to the call of Save, as invocation p runs it: the listing and
\* the stamp look at the directory only.
raceStamp(m, ps, p, now) == createStamp(m, ps[p].sess, now)

raceRest == <<scores, opts, grouped, mem, ret, assigned, wr, scored, kept, taken>>

\* sessions, err := s.List() ... session.Status = StatusPending
RaceScan(p) ==
    /\ procs[p].pc = "idle"
    /\ clock < MaxClock
    /\ \E s1 \in {raceStamp(meta, procs, p, Now(clock + 1))} :
          /\ s1.ID <= MaxId
          /\ procs' = [procs EXCEPT ![p] = [pc |-> "scanned", sess |-> s1,
                                            seen |-> Persisted(meta), err |-> FALSE]]
    /\ clock' = clock + 1
    /\ UNCHANGED <<meta, latest>>
    /\ UNCHANGED raceRest

\* Save up to atomicWrite: the rename puts the document in place, or the
\* write fails and Save returns the error.
RaceWrite(p, io) ==
    /\ procs[p].pc = "scanned"
    /\ meta' = saveMeta(meta, procs[p].sess, io)
    /\ procs' = [procs EXCEPT ![p].pc = IF saveErr(io) THEN "done" ELSE "written",
                              ![p].err = saveErr(io)]
    /\ UNCHANGED <<latest, clock>>
    /\ UNCHANGED raceRest

\* Save after atomicWrite: the latest link is replaced, Save returns nil.
RaceLink(p) ==
    /\ procs[p].pc = "written"
    /\ latest' = saveLatest(latest, procs[p].sess, "ok")
    /\ procs' = [procs EXCEPT ![p].pc = "done"]
    /\ UNCHANGED <<meta, clock>>
    /\ UNCHANGED raceRest

\* The invocation ended; the tool is started again.
RaceAgain(p) ==
    /\ procs[p].pc = "done"
    /\ clock < MaxClock
    /\ procs' = [procs EXCEPT ![p] = RaceIdle(p)]
    /\ UNCHANGED <<meta, latest, clock>>
    /\ UNCHANGED raceRest

InitRace ==
    /\ scores = <<>>
    /\ opts = Options(50, 0, TRUE, TRUE)
    /\ grouped = NotGrouped
    /\ scored = NotScored
    /\ kept = ZeroSession
    /\ taken = NotTaken
    /\ StoreEmpty
    /\ WriteIdle
    /\ procs = <<RaceIdle(1), RaceIdle(2)>>

NextRace ==
    \/ \E p \in Invocations : RaceScan(p)
    \/ \E p \in Invocations, io \in {"ok", "write"} : RaceWrite(p, io)
    \/ \E p \in Invocations : RaceLink(p)
    \/ \E p \in Invocations : RaceAgain(p)

SpecRace == InitRace /\ [][NextRace]_vars

\* Invocation p is past the listing of its Create.
Scanned(p) == procs[p].pc \in {"scanned", "written", "done"}

\* Invocation p wrote its document and Save returned nil.
Returned(p) == procs[p].pc = "done" /\ ~procs[p].err

\* C25: two invocations that listed the same set of sessions hold the same
\* id, nothing keeps the second from writing, and once both have returned
\* without error the document of that id is the one of the two that was
\* written last while the other session is in no document.
C25_SameScanSameIdOneDocumentLost ==
    \A p, q \in Invocations :
        (p # q /\ Scanned(p) /\ Scanned(q) /\ procs[p].seen = procs[q].seen) =>
            /\ procs[p].sess.ID = procs[q].sess.ID
            /\ procs[p].pc = "scanned" => ENABLED RaceWrite(p, "ok")
            /\ (Returned(p) /\ Returned(q)) =>
                  /\ meta[procs[p].sess.ID] \in {Marshal(procs[p].sess), Marshal(procs[q].sess)}
                  /\ \E r \in {p, q} : \A d \in Ids : meta[d] # Marshal(procs[r].sess)

\* C25 witness: both invocations listed the empty directory, both returned
\* nil from Create with id 1, and the document of session 1 is that of the
\* second invocation: the first one's session is lost.
C25_Witness ==
    /\ Returned(1) /\ Returned(2)
    /\ procs[1].seen = {} /\ procs[2].seen = {}
    /\ procs[1].sess.ID = 1 /\ procs[2].sess.ID = 1
    /\ meta[1] = Marshal(procs[2].sess)
    /\ \A d \in Ids : meta[d] # Marshal(procs[1].sess)

-----------------------------------------------------------------------------
(* Specification SpecPair: the files of a diff are scored and the scores   *)
(* are grouped.                                                            *)

MaxPairFiles == 2

\* A source file and its test in each of the naming conventions that
\* isTestFile and getSourcePath know.
PairPool ==
    {"a/h.go", "a/h_test.go", "w/a.js", "w/a.test.js", "w/b.ts", "w/b.spec.ts",
     "p/m.py", "p/test_m.py", "p/n.py", "p/n_test.py",
     "j/Foo.java", "j/FooTest.java", "k/Bar.kt", "k/BarTest.kt"}

PairFileLists ==
    UNION {{[i \in 1..n |-> FileContent(ps[i], 1, 0)] :
                ps \in {q \in [1..n -> PairPool] : \A i, j \in 1..n : q[i] = q[j] => i = j}} :
           n \in 1..MaxPairFiles}

InitPair ==
    /\ scores = <<>>
    /\ opts = Options(50, 0, TRUE, TRUE)
    /\ grouped = NotGrouped
    /\ StoreEmpty
    /\ WriteIdle
    /\ OthersIdle
    /\ scored \in [called : {FALSE}, files : PairFileLists, weights : {DefaultWeights},
                   churn : {[p \in PairPool |-> ChurnResult(TRUE, 0)]}]

\* batches := NewGrouper(DefaultOptions()).Group(scores), on the scores that
\* ScoreFiles returned.
GroupScored ==
    /\ scored.called /\ ~scored.err
    /\ grouped.outcome = "none"
    /\ \E ss \in {[i \in 1..Len(scored.scores) |->
                      Score(scored.scores[i].Path, scored.scores[i].Total)]} :
          /\ scores' = ss
          /\ \E m \in {GroupMaps(ss, opts)} :
                \E pairOrder \in KeyOrders(m.pairs), pkgOrder \in KeyOrders(m.packages) :
                    grouped' = Group(ss, opts, pairOrder, pkgOrder)
    /\ UNCHANGED <<opts, meta, latest, mem, ret, clock, assigned, wr, scored, kept, taken,
                   procs>>

NextPair == ScoreCall \/ GroupScored

SpecPair == InitPair /\ [][NextPair]_vars

\* The score that ScoreFiles gave to the path.
ScoreOf(path) ==
    CHOOSE sc \in {scored.scores[k] : k \in 1..Len(scored.scores)} : sc.Path = path

\* C26: the source file of every test-pair batch, which the grouper found
\* by getSourcePath of the tests behind it, was scored as having tests and
\* got no missing-test-coverage component.
C26_PairedSourceHasTests ==
    grouped.outcome = "ok" =>
        \A i \in 1..Len(grouped.batches) :
            (grouped.batches[i].Reason = "test-pair"
                /\ \E k \in 2..Len(grouped.batches[i].Files) :
                      /\ isTestFile(grouped.batches[i].Files[k])
                      /\ getSourcePath(grouped.batches[i].Files[k]) = grouped.batches[i].Files[1])
            => /\ ScoreOf(grouped.batches[i].Files[1]).HasTests
               /\ ScoreOf(grouped.batches[i].Files[1]).Breakdown.TestCoverageScore = 0

-----------------------------------------------------------------------------
(* Specification SpecAbort: runs of the tool, those that return before      *)
(* store.Create included.                                                   *)

\* The flags of a run: --max-files (0: no limit), --on-limit and --sort.
AbortFlags == [maxFiles : {0, 1}, onLimit : {"continue", "stop"}, sortBy : {"priority"}]

\* run with --on-limit read as continue whatever it says.
runOutcome_NeverStops(c, gatherErr, gathered, flags, continueFrom) ==
    IF continueFrom > 0 /\ c.err THEN "load"
    ELSE IF gatherErr THEN "gather"
    ELSE IF Len(gathered.changed) = 0 THEN "nochanges"
    ELSE "create"

\* run, the returns between the --continue handling and store.Create: the
\* chain cannot be collected, rcontext.Gather fails, nothing changed, too
\* many files with --on-limit stop; else the run goes on to store.Create.
runOutcome(c, gatherErr, gathered, flags, continueFrom) ==
    IF continueFrom > 0 /\ c.err THEN "load"
    ELSE IF gatherErr THEN "gather"
    ELSE IF Len(gathered.changed) = 0 THEN "nochanges"
    ELSE IF /\ flags.maxFiles > 0
            /\ Len(gathered[flags.sortBy]) > flags.maxFiles
            /\ flags.onLimit = "stop" THEN "toomany"
    ELSE "create"

\* run, from the --continue handling to the return before the review or to
\* store.Create(sess); gatherErr: rcontext.Gather fails.
Run(continueFrom, gatherErr, flags) ==
    \E c \in {CollectReviewedFiles(meta, continueFrom)} :
      /\ continueFrom > 0 => ~c.hang
      /\ \E excludeFiles \in {IF continueFrom > 0 /\ ~c.err THEN c.files.set ELSE {}} :
         \E gathered \in {r \in runScores : r.excluded = excludeFiles \cap DiffPaths} :
         \E out \in {runOutcome(c, gatherErr, gathered, flags, continueFrom)} :
            IF out = "create"
            THEN LET sorted == gathered[flags.sortBy]
                     filesToReview ==
                         IF flags.maxFiles > 0 /\ Len(sorted) > flags.maxFiles
                         THEN SubSeq(sorted, 1, flags.maxFiles) ELSE sorted
                 IN  Create(runSession(filterFiles(gathered.changed, filesToReview),
                                       Len(sorted), excludeFiles, continueFrom), "ok")
            ELSE /\ ret' = Ret("run", continueFrom, out # "nochanges", out)
                 /\ UNCHANGED <<meta, latest, mem, clock, assigned, scores, opts, grouped,
                                wr, scored, kept, taken, procs>>

InitAbort == GroupUnused /\ StoreEmpty /\ WriteIdle

NextAbort ==
    \E continueFrom \in 0..MaxId, gatherErr \in BOOLEAN, flags \in AbortFlags :
        Run(continueFrom, gatherErr, flags)

SpecAbort == InitAbort /\ [][NextAbort]_vars

\* The files the run would review on: the text files of the diff that no
\* session of the chain holds.
C28_Changed(continueFrom) ==
    SelectSeq(DiffFiles,
              LAMBDA f : /\ ~f.IsBinary
                         /\ (continueFrom > 0 =>
                                \A d \in Chain(meta, continueFrom) \cap Persisted(meta) :
                                    f.Path \notin DocFiles(meta[d])))

\* The run fails before the review step, in one of the three ways named.
C28_FailsBeforeReview(continueFrom, gatherErr, flags) ==
    \/ gatherErr
    \/ Len(C28_Changed(continueFrom)) = 0
    \/ /\ flags.maxFiles > 0
       /\ Len(C28_Changed(continueFrom)) > flags.maxFiles
       /\ flags.onLimit = "stop"

\* C28: a run in which context gathering fails, no file changed, or the
\* files exceed --max-files with --on-limit stop creates no session, changes
\* no session document and does not move the latest pointer.
C28_FailedRunLeavesStore ==
    [][\A continueFrom \in 0..MaxId, gatherErr \in BOOLEAN, flags \in AbortFlags :
          (Run(continueFrom, gatherErr, flags)
              /\ C28_FailsBeforeReview(continueFrom, gatherErr, flags))
          => /\ meta' = meta
             /\ latest' = latest
             /\ ret'.op = "run"]_vars

\* C28 witness: a run that continued a persisted session found more files
\* left than --max-files and stopped; the session is as it was written.
C28_Witness ==
    /\ ret.op = "run" /\ ret.io = "toomany" /\ ret.err
    /\ ret.id \in Persisted(meta)
    /\ latest = ret.id
    /\ meta[ret.id] = Marshal(mem)

-----------------------------------------------------------------------------
(* Specification SpecFinish: the tool is run on one diff with --on-limit   *)
(* continue, each run continuing from the session of the run before, and   *)
(* every run gets through its review and saves.                            *)

\* The flags of the runs: --max-files (0: no limit) and --sort.
FinishFlags == [maxFiles : {0, 2, 3}, onLimit : {"continue"}, sortBy : {"priority", "alpha"}]

\* What reviewer.Review finds: nothing, one finding, two findings.
FinishFindings == {NilSlice, SliceOf(<<AFinding>>), SliceOf(<<AFinding, AFinding>>)}

\* run up to store.Create, the first run without --continue, the next ones
\* with the id the run before has printed in its continuation hint.
FinishRun(flags) ==
    /\ \/ mem = ZeroSession
       \/ ret.op = "Save" /\ ~ret.err /\ mem.Status = StatusCompleted
    /\ Run(IF mem = ZeroSession THEN 0 ELSE mem.ID, FALSE, flags)

\* run, after reviewer.Review returned: the findings and the status are set.
FinishReview(findings) ==
    /\ ret.op = "Create" /\ ~ret.err
    /\ RecordFindings(findings)

\* run, store.Save(sess) after the review.
FinishSave ==
    /\ ret.op = "Create" /\ ~ret.err
    /\ mem.Status = StatusCompleted
    /\ Save("ok")

InitFinish == GroupUnused /\ StoreEmpty /\ WriteIdle

NextFinish ==
    \/ \E flags \in FinishFlags : FinishRun(flags)
    \/ \E fs \in FinishFindings : FinishReview(fs)
    \/ FinishSave

\* The user starts the next run as long as the tool tells them to, and a
\* run that has created its session goes on to review and to save.
SpecFinish ==
    /\ InitFinish /\ [][NextFinish]_vars
    /\ WF_vars(\E flags \in FinishFlags : FinishRun(flags))
    /\ WF_vars(\E fs \in FinishFindings : FinishReview(fs))
    /\ WF_vars(FinishSave)

\* The session continues the previous one by as much as it reviewed: its
\* reviewed and remaining files are the files the previous one left, and it
\* reviewed at least one of them if any was left.
ContinuesBy(doc, prev) ==
    /\ doc.files_reviewed + doc.files_remaining = prev.files_remaining
    /\ prev.files_remaining > 0 => doc.files_reviewed >= 1

\* C30: every persisted session that continues from another one continues it
\* by what it reviewed, and eventually a session with no files remaining is
\* persisted.
C30_ContinuationFinishes ==
    /\ [](\A d \in Persisted(meta) :
             "continued_from" \in DOMAIN meta[d] =>
                 /\ meta[d].continued_from \in Persisted(meta)
                 /\ ContinuesBy(meta[d], meta[meta[d].continued_from]))
    /\ <>(\E d \in Persisted(meta) : meta[d].files_remaining = 0)

\* C30 witness: the first run reviewed two of the four files, the run that
\* continued from it reviewed the other two and was saved as completed with
\* nothing remaining.
C30_Witness ==
    /\ meta[1] # NoFile /\ meta[2] # NoFile
    /\ meta[1].files_reviewed = 2 /\ meta[1].files_remaining = 2
    /\ "continued_from" \in DOMAIN meta[2] /\ meta[2].continued_from = 1
    /\ meta[2].files_reviewed = 2 /\ meta[2].files_remaining = 0
    /\ meta[2].status = StatusCompleted
    /\ DocFiles(meta[1]) \cap DocFiles(meta[2]) = {}

====
